---- MODULE Spec2Model ----
(***************************************************************************)
(* Lumox: LumoxClient over SqliteStorageProvider and WebCryptoProvider.    *)
(* Every public method is one atomic action; the sql.js engine and the     *)
(* WebCrypto primitive are modelled at their interface.  Where calls       *)
(* overlap, a method is also given as the steps between its awaits.        *)
(***************************************************************************)
EXTENDS Integers, Sequences, FiniteSets, TLC

VARIABLES client, storage, crypto, last, lastSent, logger,
          gather,   \* the getMessages call awaiting its decryptions, if any
          loading   \* initialize() calls of the provider awaiting the engine

vars == <<gather, loading, client, storage, crypto, last, lastSent, logger>>

(* ------------------------------ bounds -------------------------------- *)
\* Date.now() takes the values 1..MaxTime
MaxTime == 2
\* crypto.getRandomValues draws the nonces 1..MaxNonce
MaxNonce == 2
\* a cause chain holds at most MaxChain errors
MaxChain == 3
\* at most MaxCalls initialize() calls of the provider await the engine at once
MaxCalls == 2

(* --------------------------- program constants ------------------------ *)
SCHEMA_VERSION == 1
DefaultLimit == 50
DefaultOffset == 0

(* ------------------------------ error codes --------------------------- *)
UNKNOWN_ERROR == "LUMOX-1000"
INITIALIZATION_FAILED == "LUMOX-2000"
NOT_INITIALIZED == "LUMOX-2002"
STORAGE_INITIALIZATION_FAILED == "LUMOX-3000"
STORAGE_CONNECTION_ERROR == "LUMOX-3002"
STORAGE_READ_ERROR == "LUMOX-3003"
STORAGE_WRITE_ERROR == "LUMOX-3004"
STORAGE_DELETE_ERROR == "LUMOX-3005"
STORAGE_EXPORT_ERROR == "LUMOX-3006"
STORAGE_IMPORT_ERROR == "LUMOX-3007"
STORAGE_TRANSACTION_ERROR == "LUMOX-3009"
CRYPTO_INITIALIZATION_FAILED == "LUMOX-5000"
CRYPTO_KEY_GENERATION_FAILED == "LUMOX-5001"
CRYPTO_ENCRYPTION_FAILED == "LUMOX-5002"
CRYPTO_DECRYPTION_FAILED == "LUMOX-5003"
CRYPTO_KEY_EXPORT_FAILED == "LUMOX-5004"
CRYPTO_KEY_IMPORT_FAILED == "LUMOX-5005"
CRYPTO_NOT_AVAILABLE == "LUMOX-5006"
CRYPTO_KEY_NOT_SET == "LUMOX-5007"

(* ------------------------------ error values -------------------------- *)
NoCtx == [absent |-> TRUE]
NoError == [kind |-> "none"]

\* a foreign (non-taxonomy) Error raised by the engine or by a plain throw
ForeignError(message) == [kind |-> "Error", message |-> message]

LumoxError(code, message, cause, context) ==
  [kind |-> "LumoxError", code |-> code, message |-> message,
   cause |-> cause, context |-> context]

StorageError(code, message, cause, context) ==
  [LumoxError(code, message, cause, context) EXCEPT !.kind = "StorageError"]

CryptoError(code, message, cause, context) ==
  [LumoxError(code, message, cause, context) EXCEPT !.kind = "CryptoError"]

NotInitializedError(component) ==
  [LumoxError(NOT_INITIALIZED, component, NoError, NoCtx)
     EXCEPT !.kind = "NotInitializedError"]

\* error instanceof LumoxError
IsLumoxError(e) ==
  e.kind \in {"LumoxError", "StorageError", "CryptoError", "NotInitializedError"}

\* mutant: unwrapError that looks one level down only
unwrapError_oneLevel(error) ==
  IF IsLumoxError(error) /\ error.cause # NoError THEN error.cause ELSE error

\* unwrapError(error)
RECURSIVE unwrapError(_)
unwrapError(error) ==
  IF IsLumoxError(error) /\ error.cause # NoError THEN unwrapError(error.cause)
  ELSE error

(* ------------------------- outcomes of a call ------------------------- *)
Undefined == [undefined |-> TRUE]
\* a boolean a method returns
JsBoolean(b) == [boolean |-> b]
Returned(st, value) == [ok |-> TRUE, st |-> st, value |-> value, error |-> NoError]
Thrown(st, error) == [ok |-> FALSE, st |-> st, value |-> Undefined, error |-> error]

Min(a, b) == IF a < b THEN a ELSE b

(* ------------------------- JavaScript values -------------------------- *)
\* metadata?: Record<string, unknown>.  entries is a set of <<key, value>>;
\* a value is "s:..." (string), "b:true" (boolean), "null", "n:NaN" or
\* "undefined" (a property whose value is undefined).
NoMetadata == [defined |-> FALSE, entries |-> {}]
Metadata(entries) == [defined |-> TRUE, entries |-> entries]

\* JSON.stringify of an object: properties whose value is undefined are
\* dropped, NaN is written as null.
JSONstringify(obj) ==
  { <<p[1], IF p[2] = "n:NaN" THEN "null" ELSE p[2]>> :
      p \in { q \in obj.entries : q[2] # "undefined" } }

\* JSON.parse of a text produced by JSON.stringify
JSONparse(text) == Metadata(text)

\* mutant: an empty map counts as no metadata
MetadataColumn_emptyIsNull(metadata) ==
  IF metadata.defined /\ metadata.entries # {}
    THEN [null |-> FALSE, text |-> JSONstringify(metadata)]
  ELSE [null |-> TRUE, text |-> {}]

\* the value bound to the metadata column:
\*   message.metadata ? JSON.stringify(message.metadata) : null
SqlNull == [null |-> TRUE, text |-> {}]
MetadataColumn(metadata) ==
  IF metadata.defined THEN [null |-> FALSE, text |-> JSONstringify(metadata)]
  ELSE SqlNull

\* row.metadata ? JSON.parse(row.metadata) : undefined
MetadataOfColumn(col) ==
  IF col.null THEN NoMetadata ELSE JSONparse(col.text)

(* ----------------------------- sql.js engine -------------------------- *)
\* this.db: null, or a handle on a database image
Null == [open |-> FALSE]
Database(schema_version, hasMessages, messages, corrupt) ==
  [open |-> TRUE, corrupt |-> corrupt, schema_version |-> schema_version,
   hasMessages |-> hasMessages, messages |-> messages]

\* new SQL.Database(): an empty file
EmptyDatabase == Database(<<>>, FALSE, {}, FALSE)

\* a Uint8Array handed to import: "reject" makes the constructor throw,
\* "corrupt" opens but fails every statement, "db" is a database image
Blob(kind, image) == [kind |-> kind, image |-> image]
RejectBlob == Blob("reject", EmptyDatabase)
CorruptBlob == Blob("corrupt", EmptyDatabase)

\* data.byteLength, up to what the rows add to the file
byteLength(data) ==
  IF data.kind = "db" THEN 1 + Cardinality(data.image.messages) ELSE 1

\* new SQL.Database(data) for a blob the constructor accepts
OpenBlob(data) ==
  IF data.kind = "corrupt" THEN Database(<<>>, FALSE, {}, TRUE) ELSE data.image

\* db.export()
ExportDb(db) ==
  IF db.corrupt THEN CorruptBlob ELSE Blob("db", [db EXCEPT !.corrupt = FALSE])

\* createInitialTables(db)
createInitialTables(db) ==
  [db EXCEPT !.schema_version = IF Len(@) = 0 THEN <<SCHEMA_VERSION>> ELSE @,
             !.hasMessages = TRUE]

\* db.exec('SELECT version FROM schema_version') followed by
\* result[0].values[0][0]: throws on a corrupt file, a missing table or no row
CanReadVersion(db) == ~db.corrupt /\ Len(db.schema_version) > 0

\* the row INSERT INTO messages binds for a message
RowOf(message) ==
  [id |-> message.id, sender_id |-> message.senderId,
   receiver_id |-> message.receiverId,
   encrypted_content |-> message.encryptedContent,
   timestamp |-> message.timestamp, metadata |-> MetadataColumn(message.metadata)]

\* the EncryptedMessage built from a row read back
MessageOfRow(row) ==
  [id |-> row.id, senderId |-> row.sender_id, receiverId |-> row.receiver_id,
   encryptedContent |-> row.encrypted_content, timestamp |-> row.timestamp,
   metadata |-> MetadataOfColumn(row.metadata)]

\* mutant: a messages table whose id column is not a PRIMARY KEY
CanInsert_noPrimaryKey(db, row, engineFails) ==
  ~engineFails /\ ~db.corrupt /\ db.hasMessages

\* whether INSERT INTO messages succeeds: the table exists, the file is
\* readable, id is not yet a PRIMARY KEY of the table, no engine failure
CanInsert(db, row, engineFails) ==
  /\ ~engineFails
  /\ ~db.corrupt
  /\ db.hasMessages
  /\ \A r \in db.messages : r.id # row.id

InsertRow(db, row) == [db EXCEPT !.messages = @ \cup {row}]

\* whether a statement on the messages table can be prepared and run
CanQuery(db) == ~db.corrupt /\ db.hasMessages

(* ------------------------ SqliteStorageProvider ----------------------- *)
\* the provider after construction: db = null, SQL = null, initialized = false
NewStorage == [initialized |-> FALSE, SQL |-> FALSE, db |-> Null]

\* ensureInitialized(): whether it throws
StorageNotInitialized(st) == ~st.initialized \/ ~st.db.open

StorageComponent == "SqliteStorageProvider"

\* mutant: initialize() without the early return of an initialized provider
Sqlite_initialize_reopens(st, fail) ==
  IF fail = "load"
    THEN Thrown(st, StorageError(STORAGE_INITIALIZATION_FAILED, "initialize",
                                 ForeignError("Failed to import SQL.js"), NoCtx))
  ELSE IF fail = "open"
    THEN Thrown([st EXCEPT !.SQL = TRUE],
                StorageError(STORAGE_INITIALIZATION_FAILED, "initialize",
                             ForeignError("engine"), NoCtx))
  ELSE IF fail = "schema"
    THEN Thrown([st EXCEPT !.SQL = TRUE, !.db = EmptyDatabase],
                StorageError(STORAGE_INITIALIZATION_FAILED, "initialize",
                             ForeignError("engine"), NoCtx))
  ELSE Returned([initialized |-> TRUE, SQL |-> TRUE,
                 db |-> createInitialTables(EmptyDatabase)], Undefined)

\* initialize().  fail names the step of the engine that throws:
\* "load" (import('sql.js')), "open" (new SQL.Database()), "schema"
\* (createInitialTables or the version query), or "none".
Sqlite_initialize(st, fail) ==
  IF st.initialized THEN Returned(st, Undefined)
  ELSE IF fail = "load"
    THEN Thrown(st, StorageError(STORAGE_INITIALIZATION_FAILED, "initialize",
                                 ForeignError("Failed to import SQL.js"), NoCtx))
  ELSE IF fail = "open"
    THEN Thrown([st EXCEPT !.SQL = TRUE],
                StorageError(STORAGE_INITIALIZATION_FAILED, "initialize",
                             ForeignError("engine"), NoCtx))
  ELSE IF fail = "schema"
    THEN Thrown([st EXCEPT !.SQL = TRUE, !.db = EmptyDatabase],
                StorageError(STORAGE_INITIALIZATION_FAILED, "initialize",
                             ForeignError("engine"), NoCtx))
  ELSE Returned([initialized |-> TRUE, SQL |-> TRUE,
                 db |-> createInitialTables(EmptyDatabase)], Undefined)

\* initialize() from the point where the engine has loaded (or failed to):
\* the part of the method after its await, which does not read the flag again
InitializeAfterLoad(st, fail) ==
  LET failed(s1, why) ==
        Thrown(s1, StorageError(STORAGE_INITIALIZATION_FAILED, "initialize",
                                ForeignError(why), NoCtx))
  IN IF fail = "load" THEN failed(st, "Failed to import SQL.js")
     ELSE IF fail = "open" THEN failed([st EXCEPT !.SQL = TRUE], "engine")
     ELSE IF fail = "schema"
       THEN failed([st EXCEPT !.SQL = TRUE, !.db = EmptyDatabase], "engine")
     ELSE Returned([initialized |-> TRUE, SQL |-> TRUE,
                    db |-> createInitialTables(EmptyDatabase)], Undefined)

\* close().  engineFails: db.close() throws
Sqlite_close(st, engineFails) ==
  IF ~st.db.open THEN Returned(st, Undefined)
  ELSE IF engineFails
    THEN Thrown(st, StorageError(STORAGE_CONNECTION_ERROR, "close",
                                 ForeignError("engine"), NoCtx))
  ELSE Returned([st EXCEPT !.db = Null, !.initialized = FALSE], Undefined)

\* saveMessage(message)
Sqlite_saveMessage(st, message, engineFails) ==
  IF StorageNotInitialized(st) THEN Thrown(st, NotInitializedError(StorageComponent))
  ELSE IF ~CanInsert(st.db, RowOf(message), engineFails)
    THEN Thrown(st, StorageError(STORAGE_WRITE_ERROR, "saveMessage",
                                 ForeignError("engine"), [messageId |-> message.id]))
  ELSE Returned([st EXCEPT !.db = InsertRow(@, RowOf(message))], message.id)

\* getMessage(id): the statement is bound but never stepped, so getAsObject()
\* reads no row and row.id is undefined
Sqlite_getMessage(st, id) ==
  IF StorageNotInitialized(st) THEN Thrown(st, NotInitializedError(StorageComponent))
  ELSE IF ~CanQuery(st.db)
    THEN Thrown(st, StorageError(STORAGE_READ_ERROR, "getMessage",
                                 ForeignError("engine"), [messageId |-> id]))
  ELSE Returned(st, Null)

\* mutant: only the first alternative of the WHERE clause
Matching_oneDirection(db, user1Id, user2Id) ==
  { r \in db.messages : r.sender_id = user1Id /\ r.receiver_id = user2Id }

\* WHERE (sender_id = ? AND receiver_id = ?) OR (sender_id = ? AND receiver_id = ?)
Matching(db, user1Id, user2Id) ==
  { r \in db.messages :
      \/ r.sender_id = user1Id /\ r.receiver_id = user2Id
      \/ r.sender_id = user2Id /\ r.receiver_id = user1Id }

\* ORDER BY timestamp DESC: every order of the rows that is descending in
\* timestamp (the engine is free in the order of equal timestamps)
Orderings(rows) ==
  { f \in [1..Cardinality(rows) -> rows] :
      /\ \A i, j \in 1..Cardinality(rows) : i # j => f[i] # f[j]
      /\ \A i, j \in 1..Cardinality(rows) : i < j => f[i].timestamp >= f[j].timestamp }

\* LIMIT ? OFFSET ?: a negative limit is no limit, a negative offset is 0
Window(seq, limit, offset) ==
  LET off == IF offset < 0 THEN 0 ELSE offset
      upto == IF limit < 0 THEN Len(seq) ELSE Min(Len(seq), off + limit)
  IN  SubSeq(seq, off + 1, upto)

\* while (stmt.step()) messages.push({...}): one message per row, in order
MessagesOfRows(rows) == [i \in 1..Len(rows) |-> MessageOfRow(rows[i])]

\* getMessagesBetweenUsers(user1Id, user2Id, limit = 50, offset = 0);
\* order is the engine's choice among Orderings
Sqlite_getMessagesBetweenUsers(st, user1Id, user2Id, limit, offset, order) ==
  IF StorageNotInitialized(st) THEN Thrown(st, NotInitializedError(StorageComponent))
  ELSE IF ~CanQuery(st.db)
    THEN Thrown(st, StorageError(STORAGE_READ_ERROR, "getMessagesBetweenUsers",
                                 ForeignError("engine"),
                                 [user1Id |-> user1Id, user2Id |-> user2Id,
                                  limit |-> limit, offset |-> offset]))
  ELSE Returned(st, MessagesOfRows(Window(order, limit, offset)))

\* mutant: DELETE FROM messages without the WHERE clause
Sqlite_deleteMessage_everyRow(st, id) ==
  IF StorageNotInitialized(st) THEN Thrown(st, NotInitializedError(StorageComponent))
  ELSE IF ~CanQuery(st.db)
    THEN Thrown(st, StorageError(STORAGE_DELETE_ERROR, "deleteMessage",
                                 ForeignError("engine"), [messageId |-> id]))
  ELSE Returned([st EXCEPT !.db.messages = {}], JsBoolean(TRUE))

\* deleteMessage(id): DELETE FROM messages WHERE id = ?; return true
Sqlite_deleteMessage(st, id) ==
  IF StorageNotInitialized(st) THEN Thrown(st, NotInitializedError(StorageComponent))
  ELSE IF ~CanQuery(st.db)
    THEN Thrown(st, StorageError(STORAGE_DELETE_ERROR, "deleteMessage",
                                 ForeignError("engine"), [messageId |-> id]))
  ELSE Returned([st EXCEPT !.db.messages = { r \in @ : r.id # id }], JsBoolean(TRUE))

\* the loop of saveMessages from message i on: stmt.run for each message and
\* ids.push; failAt is the index at which the engine fails an INSERT (0: none)
RECURSIVE InsertAll(_, _, _, _, _)
InsertAll(db, messages, i, ids, failAt) ==
  IF i > Len(messages) THEN [ok |-> TRUE, db |-> db, ids |-> ids]
  ELSE IF ~CanInsert(db, RowOf(messages[i]), i = failAt)
    THEN [ok |-> FALSE, db |-> db, ids |-> ids]
  ELSE InsertAll(InsertRow(db, RowOf(messages[i])), messages, i + 1,
                 Append(ids, messages[i].id), failAt)

\* mutant: the rows inserted before the failure stay
Rollback_none(atBegin, working) == working

\* this.db.exec('ROLLBACK'): the database as it was at BEGIN TRANSACTION
Rollback(atBegin, working) == atBegin

\* saveMessages(messages)
Sqlite_saveMessages(st, messages, failAt) ==
  IF StorageNotInitialized(st) THEN Thrown(st, NotInitializedError(StorageComponent))
  ELSE LET run == IF CanQuery(st.db)
                    THEN InsertAll(st.db, messages, 1, <<>>, failAt)
                    ELSE [ok |-> FALSE, db |-> st.db, ids |-> <<>>]
       IN IF run.ok THEN Returned([st EXCEPT !.db = run.db], run.ids)
          ELSE Thrown([st EXCEPT !.db = Rollback(st.db, run.db)],
                      StorageError(STORAGE_TRANSACTION_ERROR, "saveMessages",
                                   ForeignError("engine"),
                                   [messageCount |-> Len(messages)]))

\* export()
Sqlite_export(st) ==
  IF StorageNotInitialized(st) THEN Thrown(st, NotInitializedError(StorageComponent))
  ELSE Returned(st, ExportDb(st.db))

\* mutant: the rows of the old database are carried into the new one
Sqlite_import_merging(st, data, overwrite) ==
  LET ctx == [dataSize |-> byteLength(data), overwrite |-> overwrite]
      failed(s1, why) ==
        Thrown(s1, StorageError(STORAGE_IMPORT_ERROR, "import", ForeignError(why), ctx))
      old == IF st.db.open THEN st.db.messages ELSE {}
  IN IF ~st.SQL THEN failed(st, "SQL.js is not initialized")
     ELSE IF ~overwrite THEN failed(st, "Merge import not implemented yet")
     ELSE IF data.kind = "reject" THEN failed([st EXCEPT !.db = Null], "engine")
     ELSE IF ~CanReadVersion(OpenBlob(data))
       THEN failed([st EXCEPT !.db = OpenBlob(data)], "engine")
     ELSE Returned([st EXCEPT !.db = [OpenBlob(data) EXCEPT !.messages = @ \cup old],
                              !.initialized = TRUE], Undefined)

\* mutant: the overwrite flag is not looked at
Sqlite_import_ignoresFlag(st, data, overwrite) ==
  LET ctx == [dataSize |-> byteLength(data), overwrite |-> overwrite]
      failed(s1, why) ==
        Thrown(s1, StorageError(STORAGE_IMPORT_ERROR, "import", ForeignError(why), ctx))
  IN IF ~st.SQL THEN failed(st, "SQL.js is not initialized")
     ELSE IF data.kind = "reject" THEN failed([st EXCEPT !.db = Null], "engine")
     ELSE IF ~CanReadVersion(OpenBlob(data))
       THEN failed([st EXCEPT !.db = OpenBlob(data)], "engine")
     ELSE Returned([st EXCEPT !.db = OpenBlob(data), !.initialized = TRUE], Undefined)

\* import(data, overwrite = false)
Sqlite_import(st, data, overwrite) ==
  LET ctx == [dataSize |-> byteLength(data), overwrite |-> overwrite]
      failed(s1, why) ==
        Thrown(s1, StorageError(STORAGE_IMPORT_ERROR, "import", ForeignError(why), ctx))
  IN IF ~st.SQL THEN failed(st, "SQL.js is not initialized")
     ELSE IF ~overwrite THEN failed(st, "Merge import not implemented yet")
     ELSE IF data.kind = "reject" THEN failed([st EXCEPT !.db = Null], "engine")
     ELSE IF ~CanReadVersion(OpenBlob(data))
       THEN failed([st EXCEPT !.db = OpenBlob(data)], "engine")
     ELSE Returned([st EXCEPT !.db = OpenBlob(data), !.initialized = TRUE], Undefined)

(* --------------------------- WebCryptoProvider ------------------------ *)
\* A string is a sequence of UTF-16 code units: "HI" and "LO" are a high and
\* a low surrogate, "FFFD" is U+FFFD, every other unit is a BMP character.
\* new TextEncoder().encode(data): the scalar values of the string, a
\* surrogate that is not part of a pair being replaced by U+FFFD
RECURSIVE TextEncode(_)
TextEncode(str) ==
  IF Len(str) = 0 THEN <<>>
  ELSE IF str[1] = "HI" /\ Len(str) >= 2 /\ str[2] = "LO"
    THEN <<"HILO">> \o TextEncode(SubSeq(str, 3, Len(str)))
  ELSE IF str[1] \in {"HI", "LO"}
    THEN <<"FFFD">> \o TextEncode(Tail(str))
  ELSE <<str[1]>> \o TextEncode(Tail(str))

\* new TextDecoder().decode(buffer) of well-formed UTF-8
RECURSIVE TextDecode(_)
TextDecode(bytes) ==
  IF Len(bytes) = 0 THEN <<>>
  ELSE IF bytes[1] = "HILO" THEN <<"HI", "LO">> \o TextDecode(Tail(bytes))
  ELSE <<bytes[1]>> \o TextDecode(Tail(bytes))

NewCrypto == [initialized |-> FALSE]

\* the token encrypt returns: base64(iv || AES-GCM(key, iv, bytes))
Token(iv, key, bytes) ==
  [wellFormed |-> TRUE, iv |-> iv, key |-> key, bytes |-> bytes]

\* a string that is no token at all; form is "blank" (empty or white space),
\* "notBase64" (atob throws) or "short" (it decodes to 12 bytes or fewer)
Malformed(form) ==
  [wellFormed |-> FALSE, iv |-> 0, key |-> "none", bytes |-> <<>>, form |-> form]
Garbage == Malformed("notBase64")

\* ensureInitialized() of the provider
CryptoNotInitializedError ==
  CryptoError(CRYPTO_NOT_AVAILABLE, "WebCryptoProvider is not initialized", NoError, NoCtx)

\* initialize().  engineFails: subtle.digest rejects
Crypto_initialize(st, engineFails) ==
  IF engineFails
    THEN Thrown(st, CryptoError(CRYPTO_INITIALIZATION_FAILED, "initialize",
                                ForeignError("engine"), NoCtx))
  ELSE Returned([st EXCEPT !.initialized = TRUE], Undefined)

\* generateKey().  key is the key subtle.generateKey draws
Crypto_generateKey(st, key, engineFails) ==
  IF ~st.initialized THEN Thrown(st, CryptoNotInitializedError)
  ELSE IF engineFails
    THEN Thrown(st, CryptoError(CRYPTO_KEY_GENERATION_FAILED, "generateKey",
                                ForeignError("engine"), NoCtx))
  ELSE Returned(st, key)

\* the string exportKey returns for a key: base64 of its 32 raw bytes
KeyData(key) == [blank |-> FALSE, base64 |-> TRUE, length |-> 32, key |-> key]

\* exportKey(key)
Crypto_exportKey(st, key) ==
  IF ~st.initialized THEN Thrown(st, CryptoNotInitializedError)
  ELSE Returned(st, KeyData(key))

\* mutant: importKey without the check of the key length
Crypto_importKey_anyLength(st, keyData) ==
  IF ~st.initialized THEN Thrown(st, CryptoNotInitializedError)
  ELSE IF keyData.blank \/ ~keyData.base64
    THEN Thrown(st, CryptoError(CRYPTO_KEY_IMPORT_FAILED, "importKey",
                                ForeignError("invalid key data"), NoCtx))
  ELSE Returned(st, keyData.key)

\* importKey(keyData)
Crypto_importKey(st, keyData) ==
  IF ~st.initialized THEN Thrown(st, CryptoNotInitializedError)
  ELSE IF keyData.blank \/ ~keyData.base64 \/ keyData.length # 32
    THEN Thrown(st, CryptoError(CRYPTO_KEY_IMPORT_FAILED, "importKey",
                                ForeignError("invalid key data"), NoCtx))
  ELSE Returned(st, keyData.key)

\* mutant: encrypt with a constant nonce
Crypto_encrypt_fixedIv(st, data, key, iv, engineFails) ==
  IF ~st.initialized THEN Thrown(st, CryptoNotInitializedError)
  ELSE IF engineFails
    THEN Thrown(st, CryptoError(CRYPTO_ENCRYPTION_FAILED, "encrypt",
                                ForeignError("engine"), NoCtx))
  ELSE Returned(st, Token(1, key, TextEncode(data)))

\* encrypt(data, key).  iv is the value crypto.getRandomValues draws
Crypto_encrypt(st, data, key, iv, engineFails) ==
  IF ~st.initialized THEN Thrown(st, CryptoNotInitializedError)
  ELSE IF engineFails
    THEN Thrown(st, CryptoError(CRYPTO_ENCRYPTION_FAILED, "encrypt",
                                ForeignError("engine"), NoCtx))
  ELSE Returned(st, Token(iv, key, TextEncode(data)))

\* the error thrown inside the try block of decrypt: by the validation of
\* the string, or by subtle.decrypt when the token does not authenticate
DecryptFailure(encryptedData) ==
  IF encryptedData.wellFormed THEN ForeignError("engine")
  ELSE IF encryptedData.form = "blank"
    THEN ForeignError("Encrypted data must be a non-empty string")
  ELSE IF encryptedData.form = "notBase64" THEN ForeignError("Invalid base64 format")
  ELSE ForeignError("Encrypted data is too short to contain IV and encrypted content")

\* mutant: the catch block of decrypt drops the error it caught
Crypto_decrypt_noCause(st, encryptedData, key) ==
  IF ~st.initialized THEN Thrown(st, CryptoNotInitializedError)
  ELSE IF ~encryptedData.wellFormed \/ encryptedData.key # key
    THEN Thrown(st, CryptoError(CRYPTO_DECRYPTION_FAILED, "Failed to decrypt data",
                                NoError, NoCtx))
  ELSE Returned(st, TextDecode(encryptedData.bytes))

\* mutant: the length check counts the 16 bytes of the tag as content, so
\* the token of the empty string is too short
Crypto_decrypt_emptyIsShort(st, encryptedData, key) ==
  IF ~st.initialized THEN Thrown(st, CryptoNotInitializedError)
  ELSE IF ~encryptedData.wellFormed \/ encryptedData.key # key
    THEN Thrown(st, CryptoError(CRYPTO_DECRYPTION_FAILED, "Failed to decrypt data",
                                DecryptFailure(encryptedData), NoCtx))
  ELSE IF Len(encryptedData.bytes) = 0
    THEN Thrown(st, CryptoError(CRYPTO_DECRYPTION_FAILED, "Failed to decrypt data",
                                DecryptFailure(Malformed("short")), NoCtx))
  ELSE Returned(st, TextDecode(encryptedData.bytes))

\* decrypt(encryptedData, key): the token must be well-formed and must
\* authenticate under key
Crypto_decrypt(st, encryptedData, key) ==
  IF ~st.initialized THEN Thrown(st, CryptoNotInitializedError)
  ELSE IF ~encryptedData.wellFormed \/ encryptedData.key # key
    THEN Thrown(st, CryptoError(CRYPTO_DECRYPTION_FAILED, "Failed to decrypt data",
                                DecryptFailure(encryptedData), NoCtx))
  ELSE Returned(st, TextDecode(encryptedData.bytes))

(* ------------------------------ LumoxClient --------------------------- *)
\* the world a client method acts on: the client and its two collaborators
NoKey == "undefined"
NewClient == [initialized |-> FALSE, encryptionKey |-> NoKey]

ClientComponent == "LumoxClient"

\* an optional argument (limit?, offset?)
Omitted == [given |-> FALSE, n |-> 0]
Arg(n) == [given |-> TRUE, n |-> n]
OrDefault(arg, default) == IF arg.given THEN arg.n ELSE default

\* the outcome of a client method, with the collaborator methods it invoked
CReturned(w, value, calls) ==
  [ok |-> TRUE, st |-> w, value |-> value, error |-> NoError, calls |-> calls]
CThrown(w, error, calls) ==
  [ok |-> FALSE, st |-> w, value |-> Undefined, error |-> error, calls |-> calls]

\* the client is built on the StorageProvider and CryptoProvider interfaces:
\* an implementation other than the two of this repository may reject a call
\* with an error of its own.  rejects: the call rejects with such an error;
\* otherwise the outcome is r, that of the provider of this repository
Collaborator(r, st, rejects) ==
  IF rejects THEN Thrown(st, ForeignError("collaborator")) ELSE r

\* ensureInitialized(): whether it throws
ClientNotInitialized(c) == ~c.initialized

\* mutant: the key check looks at the initialized flag instead of the key
KeyNotSet_wrongField(c) == ~c.initialized

\* if (!this.encryptionKey)
KeyNotSet(c) == c.encryptionKey = NoKey

KeyNotSetError ==
  CryptoError(CRYPTO_KEY_NOT_SET, "Encryption key not set", NoError, NoCtx)

\* mutant: initialize() that starts both collaborators at once
Lumox_initialize_bothAtOnce(w, storageFail, cryptoFails, foreign) ==
  LET r1 == Collaborator(Sqlite_initialize(w.storage, storageFail), w.storage,
                         foreign = "storage.initialize")
      r2 == Collaborator(Crypto_initialize(w.crypto, cryptoFails), w.crypto,
                         foreign = "crypto.initialize")
      w2 == [w EXCEPT !.storage = r1.st, !.crypto = r2.st]
      failed(cause) ==
        LumoxError(INITIALIZATION_FAILED, "Failed to initialize Lumox client", cause, NoCtx)
      both == <<"storage.initialize", "crypto.initialize">>
  IN IF ~r1.ok THEN CThrown(w2, failed(r1.error), both)
     ELSE IF ~r2.ok THEN CThrown(w2, failed(r2.error), both)
     ELSE CReturned([w2 EXCEPT !.client.initialized = TRUE], Undefined, both)

\* initialize().  foreign names the collaborator method that rejects with an
\* error of its own ("none": no method does)
Lumox_initialize(w, storageFail, cryptoFails, foreign) ==
  LET r1 == Collaborator(Sqlite_initialize(w.storage, storageFail), w.storage,
                         foreign = "storage.initialize")
      w1 == [w EXCEPT !.storage = r1.st]
      r2 == Collaborator(Crypto_initialize(w.crypto, cryptoFails), w.crypto,
                         foreign = "crypto.initialize")
      w2 == [w1 EXCEPT !.crypto = r2.st]
      failed(cause) ==
        LumoxError(INITIALIZATION_FAILED, "Failed to initialize Lumox client", cause, NoCtx)
  IN IF ~r1.ok THEN CThrown(w1, failed(r1.error), <<"storage.initialize">>)
     ELSE IF ~r2.ok
       THEN CThrown(w2, failed(r2.error), <<"storage.initialize", "crypto.initialize">>)
     ELSE CReturned([w2 EXCEPT !.client.initialized = TRUE], Undefined,
                    <<"storage.initialize", "crypto.initialize">>)

\* mutant: setEncryptionKey without ensureInitialized()
Lumox_setEncryptionKey_unguarded(w, key) ==
  CReturned([w EXCEPT !.client.encryptionKey = key], Undefined, <<>>)

\* mutant: setEncryptionKey re-encrypts the stored records under the new key
Lumox_setEncryptionKey_reencrypts(w, key) ==
  IF ClientNotInitialized(w.client)
    THEN CThrown(w, NotInitializedError(ClientComponent), <<>>)
  ELSE IF StorageNotInitialized(w.storage)
    THEN CReturned([w EXCEPT !.client.encryptionKey = key], Undefined, <<>>)
  ELSE CReturned([w EXCEPT !.client.encryptionKey = key,
                           !.storage.db.messages =
                              { [r EXCEPT !.encrypted_content.key =
                                            IF r.encrypted_content.wellFormed
                                              THEN key ELSE @] : r \in @ }],
                 Undefined, <<"storage.saveMessages">>)

\* setEncryptionKey(key)
Lumox_setEncryptionKey(w, key) ==
  IF ClientNotInitialized(w.client)
    THEN CThrown(w, NotInitializedError(ClientComponent), <<>>)
  ELSE CReturned([w EXCEPT !.client.encryptionKey = key], Undefined, <<>>)

\* generateEncryptionKey()
Lumox_generateEncryptionKey(w, key, engineFails, foreign) ==
  IF ClientNotInitialized(w.client)
    THEN CThrown(w, NotInitializedError(ClientComponent), <<>>)
  ELSE LET r == Collaborator(Crypto_generateKey(w.crypto, key, engineFails),
                             w.crypto, foreign = "crypto.generateKey")
       IN IF ~r.ok
            THEN CThrown(w, CryptoError(CRYPTO_KEY_GENERATION_FAILED,
                                        "Failed to generate encryption key",
                                        r.error, NoCtx),
                         <<"crypto.generateKey">>)
          ELSE CReturned([w EXCEPT !.client.encryptionKey = r.value], r.value,
                         <<"crypto.generateKey">>)

\* exportEncryptionKey(): the promise of crypto.exportKey is returned without
\* await, so its rejection is not caught by the try block
Lumox_exportEncryptionKey(w, foreign) ==
  IF ClientNotInitialized(w.client)
    THEN CThrown(w, NotInitializedError(ClientComponent), <<>>)
  ELSE IF KeyNotSet(w.client) THEN CThrown(w, KeyNotSetError, <<>>)
  ELSE LET r == Collaborator(Crypto_exportKey(w.crypto, w.client.encryptionKey),
                             w.crypto, foreign = "crypto.exportKey")
       IN IF ~r.ok THEN CThrown(w, r.error, <<"crypto.exportKey">>)
          ELSE CReturned(w, r.value, <<"crypto.exportKey">>)

\* importEncryptionKey(keyData)
Lumox_importEncryptionKey(w, keyData, foreign) ==
  IF ClientNotInitialized(w.client)
    THEN CThrown(w, NotInitializedError(ClientComponent), <<>>)
  ELSE LET r == Collaborator(Crypto_importKey(w.crypto, keyData), w.crypto,
                             foreign = "crypto.importKey")
       IN IF ~r.ok
            THEN CThrown(w, CryptoError(CRYPTO_KEY_IMPORT_FAILED,
                                        "Failed to import encryption key",
                                        r.error, NoCtx),
                         <<"crypto.importKey">>)
          ELSE CReturned([w EXCEPT !.client.encryptionKey = r.value], Undefined,
                         <<"crypto.importKey">>)

\* `${senderId}-${receiverId}-${timestamp}-${random}`
MessageIdOf(senderId, receiverId, timestamp, random) ==
  [senderId |-> senderId, receiverId |-> receiverId, timestamp |-> timestamp,
   random |-> random]

\* mutant: the catch block wraps every error, taxonomy-tagged or not
SendMessageCatch_alwaysWraps(error, senderId, receiverId) ==
  LumoxError(STORAGE_WRITE_ERROR, "Failed to send message", error,
             [senderId |-> senderId, receiverId |-> receiverId])

\* the catch block of sendMessage
SendMessageCatch(error, senderId, receiverId) ==
  IF IsLumoxError(error) THEN error
  ELSE LumoxError(IF error.kind = "CryptoError" THEN CRYPTO_ENCRYPTION_FAILED
                  ELSE STORAGE_WRITE_ERROR,
                  "Failed to send message", error,
                  [senderId |-> senderId, receiverId |-> receiverId])

\* mutant: sendMessage that writes the record whether or not encrypt succeeded
Lumox_sendMessage_savesAnyway(w, senderId, receiverId, content, metadata, timestamp, random, iv, encryptFails, saveFails, foreign) ==
  IF ClientNotInitialized(w.client)
    THEN CThrown(w, NotInitializedError(ClientComponent), <<>>)
  ELSE IF KeyNotSet(w.client) THEN CThrown(w, KeyNotSetError, <<>>)
  ELSE LET id == MessageIdOf(senderId, receiverId, timestamp, random)
           r1 == Collaborator(Crypto_encrypt(w.crypto, content, w.client.encryptionKey,
                                             iv, encryptFails),
                              w.crypto, foreign = "crypto.encrypt")
           encryptedMessage ==
             [id |-> id, senderId |-> senderId, receiverId |-> receiverId,
              encryptedContent |-> IF r1.ok THEN r1.value ELSE Garbage,
              timestamp |-> timestamp, metadata |-> metadata]
           r2 == Collaborator(Sqlite_saveMessage(w.storage, encryptedMessage, saveFails),
                              w.storage, foreign = "storage.saveMessage")
           both == <<"crypto.encrypt", "storage.saveMessage">>
       IN IF ~r1.ok
            THEN CThrown([w EXCEPT !.storage = r2.st],
                         SendMessageCatch(r1.error, senderId, receiverId), both)
          ELSE IF ~r2.ok
            THEN CThrown([w EXCEPT !.storage = r2.st],
                         SendMessageCatch(r2.error, senderId, receiverId), both)
          ELSE CReturned([w EXCEPT !.storage = r2.st], r2.value, both)

\* sendMessage(senderId, receiverId, content, metadata?).  timestamp is
\* Date.now(), random the suffix drawn from Math.random(), iv the nonce
Lumox_sendMessage(w, senderId, receiverId, content, metadata, timestamp, random, iv, encryptFails, saveFails, foreign) ==
  IF ClientNotInitialized(w.client)
    THEN CThrown(w, NotInitializedError(ClientComponent), <<>>)
  ELSE IF KeyNotSet(w.client) THEN CThrown(w, KeyNotSetError, <<>>)
  ELSE LET id == MessageIdOf(senderId, receiverId, timestamp, random)
           r1 == Collaborator(Crypto_encrypt(w.crypto, content, w.client.encryptionKey,
                                             iv, encryptFails),
                              w.crypto, foreign = "crypto.encrypt")
           encryptedMessage ==
             [id |-> id, senderId |-> senderId, receiverId |-> receiverId,
              encryptedContent |-> r1.value, timestamp |-> timestamp,
              metadata |-> metadata]
           r2 == Collaborator(Sqlite_saveMessage(w.storage, encryptedMessage, saveFails),
                              w.storage, foreign = "storage.saveMessage")
       IN IF ~r1.ok
            THEN CThrown(w, SendMessageCatch(r1.error, senderId, receiverId),
                         <<"crypto.encrypt">>)
          ELSE IF ~r2.ok
            THEN CThrown([w EXCEPT !.storage = r2.st],
                         SendMessageCatch(r2.error, senderId, receiverId),
                         <<"crypto.encrypt", "storage.saveMessage">>)
          ELSE CReturned([w EXCEPT !.storage = r2.st], r2.value,
                         <<"crypto.encrypt", "storage.saveMessage">>)

\* the content of a record whose decryption failed
DecryptionErrorContent == <<"[Decryption Error]">>

\* (error as Error).message of the error decrypt raised
ErrorMessageOf(error) == "s:Crypto error: " \o error.message

\* { ...encryptedMessage.metadata, decryptionError: true, errorMessage }
WithDecryptionError(metadata, error) ==
  Metadata({ p \in metadata.entries : p[1] \notin {"decryptionError", "errorMessage"} }
           \cup { <<"decryptionError", "b:true">>,
                  <<"errorMessage", ErrorMessageOf(error)>> })

\* mutant: the placeholder keeps the stored metadata, without the flags
DecryptOne_noFlags(cryptoSt, encryptedMessage, key, foreign) ==
  LET r == Collaborator(Crypto_decrypt(cryptoSt, encryptedMessage.encryptedContent, key),
                        cryptoSt, foreign = "crypto.decrypt")
  IN [id |-> encryptedMessage.id, senderId |-> encryptedMessage.senderId,
      receiverId |-> encryptedMessage.receiverId,
      content |-> IF r.ok THEN r.value ELSE DecryptionErrorContent,
      timestamp |-> encryptedMessage.timestamp,
      metadata |-> encryptedMessage.metadata]

\* the callback getMessages maps over the fetched records
DecryptOne(cryptoSt, encryptedMessage, key, foreign) ==
  LET r == Collaborator(Crypto_decrypt(cryptoSt, encryptedMessage.encryptedContent, key),
                        cryptoSt, foreign = "crypto.decrypt")
      message(content, metadata) ==
        [id |-> encryptedMessage.id, senderId |-> encryptedMessage.senderId,
         receiverId |-> encryptedMessage.receiverId, content |-> content,
         timestamp |-> encryptedMessage.timestamp, metadata |-> metadata]
  IN IF r.ok THEN message(r.value, encryptedMessage.metadata)
     ELSE message(DecryptionErrorContent,
                  WithDecryptionError(encryptedMessage.metadata, r.error))

\* mutant: the outer catch block leaves the arguments out of the context
\* mutant: a gather that lists the values in the order the promises settled
PromiseAll_asSettled(settled, done) ==
  done

\* Promise.all over the mapped records: the value of the promise at position
\* i of the input lands at position i of the result, whenever it settles.
\* settled lists the positions in the order of settling, done their values.
PromiseAll(settled, done) ==
  [i \in 1..Len(settled) |->
     done[CHOOSE k \in 1..Len(settled) : settled[k] = i]]

GetMessagesCatch_noContext(error, user1Id, user2Id, limit, offset) ==
  IF IsLumoxError(error) THEN error
  ELSE LumoxError(STORAGE_READ_ERROR, "Failed to get messages", error, NoCtx)

\* the outer catch block of getMessages
GetMessagesCatch(error, user1Id, user2Id, limit, offset) ==
  IF IsLumoxError(error) THEN error
  ELSE LumoxError(STORAGE_READ_ERROR, "Failed to get messages", error,
                  [user1Id |-> user1Id, user2Id |-> user2Id,
                   limit |-> limit, offset |-> offset])

\* getMessages(user1Id, user2Id, limit?, offset?)
Lumox_getMessages(w, user1Id, user2Id, limit, offset, order, foreign) ==
  IF ClientNotInitialized(w.client)
    THEN CThrown(w, NotInitializedError(ClientComponent), <<>>)
  ELSE IF KeyNotSet(w.client) THEN CThrown(w, KeyNotSetError, <<>>)
  ELSE LET r == Collaborator(
                  Sqlite_getMessagesBetweenUsers(
                    w.storage, user1Id, user2Id, OrDefault(limit, DefaultLimit),
                    OrDefault(offset, DefaultOffset), order),
                  w.storage, foreign = "storage.getMessagesBetweenUsers")
           decrypts == [i \in 1..Len(r.value) |-> "crypto.decrypt"]
           one(em) == DecryptOne(w.crypto, em, w.client.encryptionKey, foreign)
       IN IF ~r.ok
            THEN CThrown(w, GetMessagesCatch(r.error, user1Id, user2Id, limit, offset),
                         <<"storage.getMessagesBetweenUsers">>)
          ELSE CReturned(w, [i \in 1..Len(r.value) |-> one(r.value[i])],
                         <<"storage.getMessagesBetweenUsers">> \o decrypts)

\* exportData()
Lumox_exportData(w, foreign) ==
  IF ClientNotInitialized(w.client)
    THEN CThrown(w, NotInitializedError(ClientComponent), <<>>)
  ELSE LET r == Collaborator(Sqlite_export(w.storage), w.storage,
                             foreign = "storage.export")
       IN IF ~r.ok
            THEN CThrown(w, LumoxError(STORAGE_EXPORT_ERROR, "Failed to export data",
                                       r.error, NoCtx),
                         <<"storage.export">>)
          ELSE CReturned(w, r.value, <<"storage.export">>)

\* importData(data, overwrite = false)
Lumox_importData(w, data, overwrite, foreign) ==
  IF ClientNotInitialized(w.client)
    THEN CThrown(w, NotInitializedError(ClientComponent), <<>>)
  ELSE LET r == Collaborator(Sqlite_import(w.storage, data, OrDefault(overwrite, FALSE)),
                             w.storage, foreign = "storage.import")
           w1 == [w EXCEPT !.storage = r.st]
       IN IF ~r.ok
            THEN CThrown(w1, LumoxError(STORAGE_IMPORT_ERROR, "Failed to import data",
                                        r.error,
                                        [dataSize |-> byteLength(data),
                                         overwrite |-> OrDefault(overwrite, FALSE)]),
                         <<"storage.import">>)
          ELSE CReturned(w1, Undefined, <<"storage.import">>)

\* mutant: close() without the early return on a client that is not initialized
Lumox_close_unguarded(w, engineFails, foreign) ==
  LET r == Collaborator(Sqlite_close(w.storage, engineFails), w.storage,
                        foreign = "storage.close")
  IN IF ~r.ok
       THEN CThrown(w, LumoxError(UNKNOWN_ERROR, "Failed to close client",
                                  r.error, NoCtx),
                    <<"storage.close">>)
     ELSE CReturned([w EXCEPT !.storage = r.st, !.client.initialized = FALSE],
                    Undefined, <<"storage.close">>)

\* mutant: close() leaves the initialized flag as it is
Lumox_close_keepsFlag(w, engineFails, foreign) ==
  IF ~w.client.initialized THEN CReturned(w, Undefined, <<>>)
  ELSE LET r == Collaborator(Sqlite_close(w.storage, engineFails), w.storage,
                        foreign = "storage.close")
       IN IF ~r.ok
            THEN CThrown(w, LumoxError(UNKNOWN_ERROR, "Failed to close client",
                                       r.error, NoCtx),
                         <<"storage.close">>)
          ELSE CReturned([w EXCEPT !.storage = r.st], Undefined, <<"storage.close">>)

\* mutant: close() also forgets the key
Lumox_close_clearsKey(w, engineFails, foreign) ==
  IF ~w.client.initialized THEN CReturned(w, Undefined, <<>>)
  ELSE LET r == Collaborator(Sqlite_close(w.storage, engineFails), w.storage,
                        foreign = "storage.close")
       IN IF ~r.ok
            THEN CThrown(w, LumoxError(UNKNOWN_ERROR, "Failed to close client",
                                       r.error, NoCtx),
                         <<"storage.close">>)
          ELSE CReturned([w EXCEPT !.storage = r.st, !.client.initialized = FALSE,
                                   !.client.encryptionKey = NoKey],
                         Undefined, <<"storage.close">>)

\* close()
Lumox_close(w, engineFails, foreign) ==
  IF ~w.client.initialized THEN CReturned(w, Undefined, <<>>)
  ELSE LET r == Collaborator(Sqlite_close(w.storage, engineFails), w.storage,
                        foreign = "storage.close")
       IN IF ~r.ok
            THEN CThrown(w, LumoxError(UNKNOWN_ERROR, "Failed to close client",
                                       r.error, NoCtx),
                         <<"storage.close">>)
          ELSE CReturned([w EXCEPT !.storage = r.st, !.client.initialized = FALSE],
                         Undefined, <<"storage.close">>)

(* -------------------------------- Logger ------------------------------ *)
\* enum LogLevel
DEBUG == 0
INFO == 1
WARN == 2
ERROR == 3
NONE == 4
LogLevel == {DEBUG, INFO, WARN, ERROR, NONE}

\* the threshold each method of ConsoleLogger compares this.level with
LevelOf(method) ==
  IF method = "debug" THEN DEBUG
  ELSE IF method = "info" THEN INFO
  ELSE IF method = "warn" THEN WARN
  ELSE ERROR

\* new ConsoleLogger(options): level defaults to INFO, prefix to 'Lumox',
\* timestamps to true
LoggerOptions(level, prefix, timestamps) ==
  [level |-> level, prefix |-> prefix, timestamps |-> timestamps]
NoOptions == LoggerOptions(Omitted, Omitted, Omitted)
ConsoleLogger(options) ==
  [level |-> OrDefault(options.level, INFO),
   prefix |-> OrDefault(options.prefix, "Lumox"),
   includeTimestamps |-> OrDefault(options.timestamps, TRUE)]

\* mutant: the methods compare with < instead of <=
ConsoleWrites_strict(lg, method, withStack) ==
  IF lg.level < LevelOf(method)
    THEN IF method = "error" /\ withStack /\ lg.level = DEBUG THEN 2 ELSE 1
  ELSE 0

\* debug / info / warn / error of ConsoleLogger: the number of console
\* calls it makes.  withStack: error() was given an error that has a stack
ConsoleWrites(lg, method, withStack) ==
  IF lg.level <= LevelOf(method)
    THEN IF method = "error" /\ withStack /\ lg.level = DEBUG THEN 2 ELSE 1
  ELSE 0

\* debug / info / warn / error of NullLogger
NullWrites(method) == 0

(* ------------------------------- state -------------------------------- *)
World == [client |-> client, storage |-> storage, crypto |-> crypto]

\* the record of the latest call: the method, its arguments, its outcome and
\* the collaborator methods it invoked
NoCall ==
  [op |-> "new", args |-> NoCtx, ok |-> TRUE, error |-> NoError,
   value |-> Undefined, calls |-> <<>>]

\* the latest message a successful sendMessage stored, for as long as the
\* active key and the stored row stay what that call left
NoSent == [sent |-> FALSE]
RowsWithId(st, id) ==
  IF st.db.open THEN { r \in st.db.messages : r.id = id } ELSE {}
KeepSent(sent, w1, w2) ==
  IF /\ sent.sent
     /\ w2.client.encryptionKey = sent.key
     /\ RowsWithId(w2.storage, sent.id) = RowsWithId(w1.storage, sent.id)
     /\ RowsWithId(w2.storage, sent.id) # {}
  THEN sent ELSE NoSent

\* no getMessages call is awaiting its decryptions
NoGather ==
  [active |-> FALSE, fetched |-> <<>>, key |-> NoKey, crypto |-> NewCrypto,
   settled |-> <<>>, done |-> <<>>,
   args |-> [user1Id |-> "none", user2Id |-> "none",
             limit |-> Omitted, offset |-> Omitted]]

Init ==
  /\ client = NewClient
  /\ storage = NewStorage
  /\ crypto = NewCrypto
  /\ last = NoCall
  /\ lastSent = NoSent
  /\ logger = ConsoleLogger(NoOptions)
  /\ gather = NoGather
  /\ loading = 0

\* a client method with outcome out has run
ClientCall(op, args, out) ==
  /\ UNCHANGED <<logger, gather, loading>>
  /\ client' = out.st.client
  /\ storage' = out.st.storage
  /\ crypto' = out.st.crypto
  /\ last' = [op |-> op, args |-> args, ok |-> out.ok, error |-> out.error,
              value |-> out.value, calls |-> out.calls]

\* a method of the storage provider, called on it directly, has run
StorageCall(op, args, out) ==
  /\ storage' = out.st
  /\ UNCHANGED <<client, crypto, logger, gather, loading>>
  /\ last' = [op |-> op, args |-> args, ok |-> out.ok, error |-> out.error,
              value |-> out.value, calls |-> <<>>]
  /\ lastSent' = KeepSent(lastSent, World, [World EXCEPT !.storage = out.st])

(* --------------------------- client actions --------------------------- *)
Initialize(storageFail, cryptoFails, foreign) ==
  LET out == Lumox_initialize(World, storageFail, cryptoFails, foreign)
  IN /\ ClientCall("initialize", NoCtx, out)
     /\ lastSent' = KeepSent(lastSent, World, out.st)

SetEncryptionKey(key) ==
  LET out == Lumox_setEncryptionKey(World, key)
  IN /\ ClientCall("setEncryptionKey", [key |-> key], out)
     /\ lastSent' = KeepSent(lastSent, World, out.st)

GenerateEncryptionKey(key, engineFails, foreign) ==
  LET out == Lumox_generateEncryptionKey(World, key, engineFails, foreign)
  IN /\ ClientCall("generateEncryptionKey", NoCtx, out)
     /\ lastSent' = KeepSent(lastSent, World, out.st)

ExportEncryptionKey(foreign) ==
  LET out == Lumox_exportEncryptionKey(World, foreign)
  IN /\ ClientCall("exportEncryptionKey", NoCtx, out)
     /\ lastSent' = KeepSent(lastSent, World, out.st)

ImportEncryptionKey(keyData, foreign) ==
  LET out == Lumox_importEncryptionKey(World, keyData, foreign)
  IN /\ ClientCall("importEncryptionKey", [keyData |-> keyData], out)
     /\ lastSent' = KeepSent(lastSent, World, out.st)

SendMessage(senderId, receiverId, content, metadata, timestamp, random, iv, encryptFails, saveFails, foreign) ==
  LET out == Lumox_sendMessage(World, senderId, receiverId, content, metadata,
                               timestamp, random, iv, encryptFails, saveFails, foreign)
      args == [senderId |-> senderId, receiverId |-> receiverId,
               content |-> content, metadata |-> metadata]
  IN /\ ClientCall("sendMessage", args, out)
     /\ lastSent' = IF out.ok
                      THEN [sent |-> TRUE, id |-> out.value, senderId |-> senderId,
                            receiverId |-> receiverId, content |-> content,
                            metadata |-> metadata, timestamp |-> timestamp,
                            key |-> client.encryptionKey]
                    ELSE KeepSent(lastSent, World, out.st)

GetMessages(user1Id, user2Id, limit, offset, foreign) ==
  \E order \in IF storage.db.open /\ CanQuery(storage.db)
                 THEN Orderings(Matching(storage.db, user1Id, user2Id))
               ELSE {<<>>} :
    LET out == Lumox_getMessages(World, user1Id, user2Id, limit, offset, order, foreign)
        args == [user1Id |-> user1Id, user2Id |-> user2Id,
                 limit |-> limit, offset |-> offset]
    IN /\ ClientCall("getMessages", args, out)
       /\ lastSent' = KeepSent(lastSent, World, out.st)

\* getMessages up to its Promise.all: the guards and the fetch; a call that
\* passes them has issued one decryption per fetched record and awaits them
GetMessagesBegin(user1Id, user2Id, limit, offset) ==
  /\ ~gather.active
  /\ \E order \in IF storage.db.open /\ CanQuery(storage.db)
                     THEN Orderings(Matching(storage.db, user1Id, user2Id))
                   ELSE {<<>>} :
       LET out == Lumox_getMessages(World, user1Id, user2Id, limit, offset, order, "none")
           fetched == Sqlite_getMessagesBetweenUsers(
                        storage, user1Id, user2Id, OrDefault(limit, DefaultLimit),
                        OrDefault(offset, DefaultOffset), order).value
           args == [user1Id |-> user1Id, user2Id |-> user2Id,
                    limit |-> limit, offset |-> offset]
       IN IF ~out.ok
            THEN /\ ClientCall("getMessages", args, out)
                 /\ lastSent' = KeepSent(lastSent, World, out.st)
          ELSE /\ gather' = [active |-> TRUE, fetched |-> fetched,
                             key |-> client.encryptionKey, crypto |-> crypto,
                             settled |-> <<>>, done |-> <<>>, args |-> args]
               /\ UNCHANGED <<client, storage, crypto, last, lastSent, logger, loading>>

\* the decryption of the record at position i settles: its callback returns
\* the message or the placeholder
DecryptSettles(i) ==
  /\ gather.active
  /\ i \in 1..Len(gather.fetched)
  /\ \A k \in 1..Len(gather.settled) : gather.settled[k] # i
  /\ gather' = [gather EXCEPT
                  !.settled = Append(@, i),
                  !.done = Append(@, DecryptOne(gather.crypto, gather.fetched[i],
                                                gather.key, "none"))]
  /\ UNCHANGED <<client, storage, crypto, last, lastSent, logger, loading>>

\* every decryption has settled: getMessages returns the gathered list
GetMessagesReturn ==
  /\ gather.active
  /\ Len(gather.settled) = Len(gather.fetched)
  /\ LET decrypts == [i \in 1..Len(gather.fetched) |-> "crypto.decrypt"]
         out == CReturned(World, PromiseAll(gather.settled, gather.done),
                          <<"storage.getMessagesBetweenUsers">> \o decrypts)
     IN /\ client' = client /\ storage' = storage /\ crypto' = crypto
        /\ last' = [op |-> "getMessages", args |-> gather.args, ok |-> TRUE,
                    error |-> NoError, value |-> out.value, calls |-> out.calls]
  /\ gather' = NoGather
  /\ UNCHANGED <<lastSent, logger, loading>>

ExportData(foreign) ==
  LET out == Lumox_exportData(World, foreign)
  IN /\ ClientCall("exportData", NoCtx, out)
     /\ lastSent' = KeepSent(lastSent, World, out.st)

ImportData(data, overwrite, foreign) ==
  LET out == Lumox_importData(World, data, overwrite, foreign)
  IN /\ ClientCall("importData", [data |-> data, overwrite |-> overwrite], out)
     /\ lastSent' = KeepSent(lastSent, World, out.st)

Close(engineFails, foreign) ==
  LET out == Lumox_close(World, engineFails, foreign)
  IN /\ ClientCall("close", NoCtx, out)
     /\ lastSent' = KeepSent(lastSent, World, out.st)

(* ------------------- storage provider called directly ----------------- *)
StorageInitialize(fail) ==
  StorageCall("storage.initialize", NoCtx, Sqlite_initialize(storage, fail))

\* initialize() of a provider without sqlInstance, up to its await: a call
\* that finds the flag set returns, any other suspends loading the engine
StorageInitializeBegin ==
  IF storage.initialized
    THEN StorageCall("storage.initialize", NoCtx, Returned(storage, Undefined))
  ELSE /\ loading < MaxCalls
       /\ loading' = loading + 1
       /\ UNCHANGED <<gather, client, storage, crypto, last, lastSent, logger>>

\* a suspended initialize() resumes and runs to its end
StorageInitializeResume(fail) ==
  /\ loading > 0
  /\ loading' = loading - 1
  /\ LET out == InitializeAfterLoad(storage, fail)
     IN /\ storage' = out.st
        /\ last' = [op |-> "storage.initialize", args |-> NoCtx, ok |-> out.ok,
                    error |-> out.error, value |-> out.value, calls |-> <<>>]
        /\ lastSent' = KeepSent(lastSent, World, [World EXCEPT !.storage = out.st])
  /\ UNCHANGED <<gather, client, crypto, logger>>

StorageClose(engineFails) ==
  StorageCall("storage.close", NoCtx, Sqlite_close(storage, engineFails))

StorageSaveMessage(message, engineFails) ==
  StorageCall("storage.saveMessage", [message |-> message],
              Sqlite_saveMessage(storage, message, engineFails))

StorageGetMessage(id) ==
  StorageCall("storage.getMessage", [id |-> id], Sqlite_getMessage(storage, id))

StorageGetMessagesBetweenUsers(user1Id, user2Id, limit, offset) ==
  \E order \in IF storage.db.open /\ CanQuery(storage.db)
                 THEN Orderings(Matching(storage.db, user1Id, user2Id))
               ELSE {<<>>} :
    StorageCall("storage.getMessagesBetweenUsers",
                [user1Id |-> user1Id, user2Id |-> user2Id,
                 limit |-> limit, offset |-> offset],
                Sqlite_getMessagesBetweenUsers(
                  storage, user1Id, user2Id, OrDefault(limit, DefaultLimit),
                  OrDefault(offset, DefaultOffset), order))

StorageDeleteMessage(id) ==
  StorageCall("storage.deleteMessage", [id |-> id], Sqlite_deleteMessage(storage, id))

StorageSaveMessages(messages, failAt) ==
  StorageCall("storage.saveMessages", [messages |-> messages, failAt |-> failAt],
              Sqlite_saveMessages(storage, messages, failAt))

StorageExport ==
  StorageCall("storage.export", NoCtx, Sqlite_export(storage))

StorageImport(data, overwrite) ==
  StorageCall("storage.import", [data |-> data, overwrite |-> overwrite],
              Sqlite_import(storage, data, OrDefault(overwrite, FALSE)))

(* -------------------- crypto provider called directly ----------------- *)
\* the value a promise of the provider resolved to, by its type
AsKey(out) == IF out.ok THEN [out EXCEPT !.value = [key |-> @]] ELSE out
AsKeyString(out) == IF out.ok THEN [out EXCEPT !.value = [keyString |-> @]] ELSE out
AsToken(out) == IF out.ok THEN [out EXCEPT !.value = [token |-> @]] ELSE out
AsString(out) == IF out.ok THEN [out EXCEPT !.value = [string |-> @]] ELSE out

\* a method of the crypto provider, called on it directly, has run
CryptoCall(op, args, out) ==
  /\ crypto' = out.st
  /\ UNCHANGED <<client, storage, lastSent, logger, gather, loading>>
  /\ last' = [op |-> op, args |-> args, ok |-> out.ok, error |-> out.error,
              value |-> out.value, calls |-> <<>>]

CryptoInitialize(engineFails) ==
  CryptoCall("crypto.initialize", NoCtx, Crypto_initialize(crypto, engineFails))

CryptoGenerateKey(key, engineFails) ==
  CryptoCall("crypto.generateKey", NoCtx,
             AsKey(Crypto_generateKey(crypto, key, engineFails)))

CryptoExportKey(key) ==
  CryptoCall("crypto.exportKey", [key |-> key], AsKeyString(Crypto_exportKey(crypto, key)))

CryptoImportKey(keyData) ==
  CryptoCall("crypto.importKey", [keyData |-> keyData],
             AsKey(Crypto_importKey(crypto, keyData)))

CryptoEncrypt(data, key, iv, engineFails) ==
  CryptoCall("crypto.encrypt", [data |-> data, key |-> key, iv |-> iv],
             AsToken(Crypto_encrypt(crypto, data, key, iv, engineFails)))

CryptoDecrypt(encryptedData, key) ==
  CryptoCall("crypto.decrypt", [encryptedData |-> encryptedData, key |-> key],
             AsString(Crypto_decrypt(crypto, encryptedData, key)))

(* ------------------------------- loggers ------------------------------ *)
\* a method of a logger has run and made writes console calls
LoggerCall(op, args, lg, writes) ==
  /\ logger' = lg
  /\ UNCHANGED <<client, storage, crypto, lastSent, gather, loading>>
  /\ last' = [op |-> op, args |-> args, ok |-> TRUE, error |-> NoError,
              value |-> [writes |-> writes], calls |-> <<>>]

NewConsoleLogger(options) ==
  LoggerCall("new ConsoleLogger", options, ConsoleLogger(options), 0)

SetLevel(level) ==
  LoggerCall("logger.setLevel", [level |-> level], [logger EXCEPT !.level = level], 0)

SetPrefix(prefix) ==
  LoggerCall("logger.setPrefix", [prefix |-> prefix], [logger EXCEPT !.prefix = prefix], 0)

SetTimestamps(include) ==
  LoggerCall("logger.setTimestamps", [include |-> include],
             [logger EXCEPT !.includeTimestamps = include], 0)

ConsoleLog(method, withStack) ==
  LoggerCall("logger.log", [method |-> method, withStack |-> withStack], logger,
             ConsoleWrites(logger, method, withStack))

NullLog(method) ==
  LoggerCall("nullLogger.log", [method |-> method], logger, NullWrites(method))

(* --------------------------- error utilities -------------------------- *)
\* the number of errors of the cause chain that starts at error
RECURSIVE ChainLength(_)
ChainLength(error) ==
  IF IsLumoxError(error) /\ error.cause # NoError THEN 1 + ChainLength(error.cause)
  ELSE 1

\* a value has been thrown or constructed: last.value holds it
ErrorValue(op, args, error) ==
  /\ UNCHANGED <<client, storage, crypto, lastSent, logger, gather, loading>>
  /\ last' = [op |-> op, args |-> args, ok |-> TRUE, error |-> NoError,
              value |-> [error |-> error], calls |-> <<>>]

\* whether last.value holds an error value
HoldsError == last.op \in {"throw", "new LumoxError", "unwrapError"}

\* a value that is no LumoxError is thrown
Throw(error) == ErrorValue("throw", NoCtx, error)

\* new LumoxError / StorageError / CryptoError(code, message, { cause })
\* around the value at hand, or without a cause
NewLumoxError(kind, code, withCause) ==
  /\ withCause => HoldsError /\ ChainLength(last.value.error) < MaxChain
  /\ ErrorValue("new LumoxError", [kind |-> kind, code |-> code],
                [LumoxError(code, "wrapped",
                            IF withCause THEN last.value.error ELSE NoError, NoCtx)
                   EXCEPT !.kind = kind])

\* unwrapError(error) of the value at hand
UnwrapError ==
  /\ HoldsError
  /\ ErrorValue("unwrapError", [error |-> last.value.error],
                unwrapError(last.value.error))

(* ------------------------------- inputs ------------------------------- *)
Keys == {"k1", "k2"}
Timestamps == 1..MaxTime
Plain == <<"h", "i">>

\* an EncryptedMessage a caller hands to the provider itself
Stored(senderId, receiverId, timestamp, encryptedContent, metadata) ==
  [id |-> MessageIdOf(senderId, receiverId, timestamp, "direct"),
   senderId |-> senderId, receiverId |-> receiverId,
   encryptedContent |-> encryptedContent, timestamp |-> timestamp,
   metadata |-> metadata]

\* a record whose content was tampered with, and a record of another pair
Tampered == Stored("bob", "alice", 1, Garbage, NoMetadata)
OfCarol == Stored("carol", "alice", 1, Token(1, "k1", TextEncode(Plain)), NoMetadata)

\* a backup taken earlier: a database holding the record of carol
BackupBlob ==
  Blob("db", Database(<<SCHEMA_VERSION>>, TRUE, {RowOf(OfCarol)}, FALSE))
\* a database file without a schema_version row
NoVersionBlob == Blob("db", Database(<<>>, TRUE, {RowOf(Tampered)}, FALSE))

\* the blobs a caller can hand to import: fixed ones and the blob the
\* latest export returned
Blobs ==
  {RejectBlob, CorruptBlob, NoVersionBlob, BackupBlob}
    \cup (IF last.op \in {"exportData", "storage.export"} /\ last.ok
            THEN {last.value} ELSE {})

Batches == { <<>>, <<Tampered>>, <<OfCarol, Tampered>>, <<Tampered, OfCarol>>,
             <<OfCarol, OfCarol>> }

Windows == { <<Omitted, Omitted>>, <<Arg(1), Omitted>>, <<Arg(1), Arg(1)>> }
UserPairs == { <<"alice", "bob">>, <<"bob", "alice">>, <<"alice", "carol">> }

Next ==
  \/ \E sf \in {"none", "load", "open", "schema"}, cf \in BOOLEAN : Initialize(sf, cf, "none")
  \/ \E k \in Keys : SetEncryptionKey(k)
  \/ \E k \in Keys, f \in BOOLEAN : GenerateEncryptionKey(k, f, "none")
  \/ ExportEncryptionKey("none")
  \/ \E kd \in {KeyData("k1"), [KeyData("k2") EXCEPT !.length = 31]} :
       ImportEncryptionKey(kd, "none")
  \/ \E t \in Timestamps, ef \in BOOLEAN, sf \in BOOLEAN :
       SendMessage("alice", "bob", Plain, NoMetadata, t, "r1", 1, ef, sf, "none")
  \/ \E p \in UserPairs, win \in Windows :
       GetMessages(p[1], p[2], win[1], win[2], "none")
  \/ ExportData("none")
  \/ \E b \in Blobs, o \in {Omitted, Arg(TRUE), Arg(FALSE)} : ImportData(b, o, "none")
  \/ \E f \in BOOLEAN : Close(f, "none")
  \/ \E f \in {"none", "load"} : StorageInitialize(f)
  \/ \E f \in BOOLEAN : StorageClose(f)
  \/ \E m \in {Tampered, OfCarol}, f \in BOOLEAN : StorageSaveMessage(m, f)
  \/ \E m \in {Tampered, OfCarol} : StorageGetMessage(m.id)
  \/ \E p \in UserPairs, win \in Windows :
       StorageGetMessagesBetweenUsers(p[1], p[2], win[1], win[2])
  \/ \E m \in {Tampered, OfCarol} : StorageDeleteMessage(m.id)
  \/ \E b \in Batches, failAt \in 0..2 : StorageSaveMessages(b, failAt)
  \/ StorageExport
  \/ \E b \in Blobs, o \in {Omitted, Arg(TRUE), Arg(FALSE)} : StorageImport(b, o)

\* content and metadata of the messages sent: a BMP string without metadata,
\* the empty string with a string property, a surrogate pair with the empty
\* map, an unpaired high surrogate, a property whose value is undefined
Samples == { <<Plain, NoMetadata>>,
             <<<<>>, Metadata({<<"k", "s:v">>})>>,
             <<<<"HI", "LO">>, Metadata({})>>,
             <<<<"HI">>, NoMetadata>>,
             <<Plain, Metadata({<<"k", "undefined">>})>> }

\* the message lifecycle alone, over the samples
NextRoundTrip ==
  \/ Initialize("none", FALSE, "none")
  \/ GenerateEncryptionKey("k1", FALSE, "none")
  \/ \E sample \in Samples, t \in Timestamps :
       SendMessage("alice", "bob", sample[1], sample[2], t, "r1", 1, FALSE, FALSE, "none")
  \/ \E p \in { <<"alice", "bob">>, <<"bob", "alice">> },
         win \in { <<Omitted, Omitted>>, <<Arg(1), Omitted>> } :
       GetMessages(p[1], p[2], win[1], win[2], "none")
  \/ Close(FALSE, "none")

SpecRoundTrip == Init /\ [][NextRoundTrip]_vars

\* the records callers hand to the provider: for each pair of users one
\* record per timestamp, those of bob with metadata
Records ==
  { Stored(p[1], p[2], t, Token(1, "k1", TextEncode(Plain)),
           IF p[1] = "bob" THEN Metadata({<<"k", "s:v">>}) ELSE NoMetadata) :
      p \in { <<"alice", "bob">>, <<"bob", "alice">>, <<"carol", "alice">> },
      t \in Timestamps }

\* the provider alone: records written, read, paged and deleted
NextStorage ==
  \/ StorageInitialize("none")
  \/ StorageClose(FALSE)
  \/ \E m \in Records : StorageSaveMessage(m, FALSE)
  \/ \E m \in Records : StorageGetMessage(m.id)
  \/ \E p \in UserPairs, win \in Windows :
       StorageGetMessagesBetweenUsers(p[1], p[2], win[1], win[2])
  \/ \E m \in Records : StorageDeleteMessage(m.id)

SpecStorage == Init /\ [][NextStorage]_vars

\* the client alone, over providers of this repository and over collaborators
\* that reject calls with errors of their own
NextClient ==
  \/ \E sf \in {"none", "schema"}, cf \in BOOLEAN,
         fo \in {"none", "storage.initialize", "crypto.initialize"} :
       Initialize(sf, cf, fo)
  \/ SetEncryptionKey("k2")
  \/ \E f \in BOOLEAN, fo \in {"none", "crypto.generateKey"} :
       GenerateEncryptionKey("k1", f, fo)
  \/ \E fo \in {"none", "crypto.exportKey"} : ExportEncryptionKey(fo)
  \/ \E kd \in {KeyData("k1"), [KeyData("k2") EXCEPT !.length = 31]},
         fo \in {"none", "crypto.importKey"} :
       ImportEncryptionKey(kd, fo)
  \/ \E t \in Timestamps, ef \in BOOLEAN, sf \in BOOLEAN,
         fo \in {"none", "crypto.encrypt", "storage.saveMessage"} :
       SendMessage("alice", "bob", Plain, NoMetadata, t, "r1", 1, ef, sf, fo)
  \/ \E win \in {<<Omitted, Omitted>>, <<Arg(1), Arg(1)>>},
         fo \in {"none", "storage.getMessagesBetweenUsers", "crypto.decrypt"} :
       GetMessages("bob", "alice", win[1], win[2], fo)
  \/ \E fo \in {"none", "storage.export"} : ExportData(fo)
  \/ \E b \in Blobs, o \in {Omitted, Arg(TRUE)}, fo \in {"none", "storage.import"} :
       ImportData(b, o, fo)
  \/ \E f \in BOOLEAN, fo \in {"none", "storage.close"} : Close(f, fo)

SpecClient == Init /\ [][NextClient]_vars

\* the plaintexts handed to encrypt: the empty string, a BMP string, a
\* surrogate pair, an unpaired high surrogate
Strings == { <<>>, Plain, <<"HI", "LO">>, <<"HI">> }
Nonces == 1..MaxNonce

\* a token whose ciphertext was altered: it decodes and is long enough but
\* authenticates under no key
Forged == Token(1, "none", TextEncode(Plain))

\* the strings handed to decrypt: malformed ones, a forged one, and the
\* token the latest encrypt returned
Tokens ==
  {Malformed("blank"), Malformed("notBase64"), Malformed("short"), Forged}
    \cup (IF last.op = "crypto.encrypt" /\ last.ok THEN {last.value.token} ELSE {})

\* the strings handed to importKey: an exported key, a blank string, a
\* string atob rejects, and strings that decode to 31 and to 33 bytes
KeyStrings ==
  { KeyData("k1"), KeyData("k2"),
    [KeyData("k1") EXCEPT !.blank = TRUE, !.length = 0],
    [KeyData("k1") EXCEPT !.base64 = FALSE],
    [KeyData("k1") EXCEPT !.length = 31],
    [KeyData("k1") EXCEPT !.length = 33] }

\* the crypto provider, called directly and through the key operations of
\* the client
NextCrypto ==
  \/ \E f \in BOOLEAN : CryptoInitialize(f)
  \/ \E k \in Keys, f \in BOOLEAN : CryptoGenerateKey(k, f)
  \/ \E k \in Keys : CryptoExportKey(k)
  \/ \E kd \in KeyStrings : CryptoImportKey(kd)
  \/ \E str \in Strings, k \in Keys, iv \in Nonces, f \in BOOLEAN :
       CryptoEncrypt(str, k, iv, f)
  \/ \E tok \in Tokens, k \in Keys : CryptoDecrypt(tok, k)
  \/ \E cf \in BOOLEAN : Initialize("none", cf, "none")
  \/ SetEncryptionKey("k2")
  \/ \E kd \in KeyStrings : ImportEncryptionKey(kd, "none")

SpecCrypto == Init /\ [][NextCrypto]_vars

\* the values thrown that are no LumoxError: two Errors and a string
Thrownables ==
  { ForeignError("engine"), ForeignError("collaborator"),
    [kind |-> "string", message |-> "not an error"] }

\* cause chains built and unwrapped
NextErrors ==
  \/ \E e \in Thrownables : Throw(e)
  \/ \E kind \in {"LumoxError", "StorageError", "CryptoError"},
         code \in {UNKNOWN_ERROR, STORAGE_READ_ERROR}, withCause \in BOOLEAN :
       NewLumoxError(kind, code, withCause)
  \/ UnwrapError

SpecErrors == Init /\ [][NextErrors]_vars

Methods == {"debug", "info", "warn", "error"}

\* a ConsoleLogger constructed, reconfigured and called, and a NullLogger
\* called
NextLogger ==
  \/ \E level \in {Omitted} \cup { Arg(l) : l \in LogLevel } :
       NewConsoleLogger(LoggerOptions(level, Omitted, Omitted))
  \/ NewConsoleLogger(LoggerOptions(Arg(DEBUG), Arg("app"), Arg(FALSE)))
  \/ \E prefix \in {"Lumox", "app"} : SetPrefix(prefix)
  \/ \E include \in BOOLEAN : SetTimestamps(include)
  \/ \E level \in LogLevel : SetLevel(level)
  \/ \E method \in Methods, withStack \in BOOLEAN : ConsoleLog(method, withStack)
  \/ \E method \in Methods : NullLog(method)

SpecLogger == Init /\ [][NextLogger]_vars

\* a page of at most GatherLimit records is asked for
GatherLimit == 3

\* getMessages by its steps: records are sent under two keys, two of them
\* at one instant, and the decryptions of a call settle in every order while other
\* calls run
NextGather ==
  \/ Initialize("none", FALSE, "none")
  \/ \E k \in {"k1", "k2"} : SetEncryptionKey(k)
  \/ \E t \in Timestamps :
       SendMessage("alice", "bob", Plain, NoMetadata, t, "r1", 1, FALSE, FALSE, "none")
  \/ SendMessage("bob", "alice", Plain, NoMetadata, 1, "r1", 1, FALSE, FALSE, "none")
  \/ GetMessagesBegin("alice", "bob", Arg(GatherLimit), Omitted)
  \/ \E i \in 1..GatherLimit : DecryptSettles(i)
  \/ GetMessagesReturn

SpecGather == Init /\ [][NextGather]_vars

\* a provider whose initialize() calls overlap, with records written and
\* read in between
NextOverlap ==
  \/ StorageInitializeBegin
  \/ \E f \in {"none", "load", "open", "schema"} : StorageInitializeResume(f)
  \/ \E m \in {Tampered, OfCarol} : StorageSaveMessage(m, FALSE)
  \/ \E p \in UserPairs : StorageGetMessagesBetweenUsers(p[1], p[2], Omitted, Omitted)
  \/ StorageClose(FALSE)

SpecOverlap == Init /\ [][NextOverlap]_vars

\* what a caller may pass to sendMessage: an ordinary message, the content
\* of the placeholder, the flag of the placeholder as a property, and both
\* together with the message of a failed decryption
Lookalikes ==
  LET failure == Crypto_decrypt([NewCrypto EXCEPT !.initialized = TRUE],
                                Token(1, "k1", TextEncode(Plain)), "k2").error
  IN { <<Plain, NoMetadata>>,
       <<DecryptionErrorContent, NoMetadata>>,
       <<Plain, Metadata({<<"decryptionError", "b:true">>})>>,
       <<DecryptionErrorContent, WithDecryptionError(NoMetadata, failure)>> }

\* messages of any content and metadata are sent under two keys and listed
NextPlaceholder ==
  \/ Initialize("none", FALSE, "none")
  \/ \E k \in {"k1", "k2"} : SetEncryptionKey(k)
  \/ \E sample \in Lookalikes, t \in Timestamps :
       SendMessage("alice", "bob", sample[1], sample[2], t, "r1", 1, FALSE, FALSE, "none")
  \/ GetMessages("alice", "bob", Omitted, Omitted, "none")

SpecPlaceholder == Init /\ [][NextPlaceholder]_vars

Spec == Init /\ [][Next]_vars

(* ======================================================================= *)
(* Claims                                                                  *)
(* ======================================================================= *)
ClientReady == client.initialized /\ client.encryptionKey # NoKey
StorageReady == ~StorageNotInitialized(storage) /\ CanQuery(storage.db)

\* whether decryption of a fetched record fails under the active key
DecryptionFails(em) ==
  ~em.encryptedContent.wellFormed \/ em.encryptedContent.key # client.encryptionKey

HasEntry(metadata, k) == \E p \in metadata.entries : p[1] = k

\* the result res of getMessages is the projection of the fetched list
ProjectionOf(res, fetched) ==
  /\ Len(res) = Len(fetched)
  /\ \A i \in 1..Len(fetched) :
       /\ res[i].id = fetched[i].id
       /\ res[i].senderId = fetched[i].senderId
       /\ res[i].receiverId = fetched[i].receiverId
       /\ res[i].timestamp = fetched[i].timestamp
       /\ IF DecryptionFails(fetched[i])
            THEN /\ res[i].content = DecryptionErrorContent
                 /\ <<"decryptionError", "b:true">> \in res[i].metadata.entries
                 /\ HasEntry(res[i].metadata, "errorMessage")
          ELSE res[i].content = TextDecode(fetched[i].encryptedContent.bytes)

\* C1: a getMessages whose fetch step succeeds returns normally, with one
\* result per fetched record in fetch order: the records whose decryption
\* fails carry the placeholder content and the decryptionError and
\* errorMessage metadata flags, every other record carries its decrypted
\* content, and id, sender, receiver and timestamp are those of the record.
C1_PartialFailureIsolation ==
  (last.op = "getMessages" /\ ClientReady /\ StorageReady) =>
    /\ last.ok
    /\ \E order \in Orderings(Matching(storage.db, last.args.user1Id, last.args.user2Id)) :
         ProjectionOf(last.value,
                      MessagesOfRows(
                        Window(order, OrDefault(last.args.limit, DefaultLimit),
                               OrDefault(last.args.offset, DefaultOffset))))

\* a batch of three was read: two decrypted, one replaced by the placeholder
C1_Witness ==
  /\ last.op = "getMessages" /\ last.ok /\ Len(last.value) = 3
  /\ Cardinality({ i \in 1..3 : last.value[i].content = DecryptionErrorContent }) = 1
  /\ Cardinality({ i \in 1..3 : last.value[i].content = Plain }) = 2

\* C2: sendMessage, getMessages and exportEncryptionKey fail with
\* NOT_INITIALIZED on a client that is not initialized, key or no key, and
\* with CRYPTO_KEY_NOT_SET on an initialized client without a key; the two
\* codes differ.
C2_PreconditionCodes ==
  /\ NOT_INITIALIZED # CRYPTO_KEY_NOT_SET
  /\ last.op \in {"sendMessage", "getMessages", "exportEncryptionKey"} =>
       /\ ~client.initialized => ~last.ok /\ last.error.code = NOT_INITIALIZED
       /\ (client.initialized /\ client.encryptionKey = NoKey) =>
            ~last.ok /\ last.error.code = CRYPTO_KEY_NOT_SET

\* sendMessage was refused on a closed client that still holds a key
C2_Witness ==
  /\ last.op = "sendMessage" /\ ~client.initialized /\ client.encryptionKey # NoKey
  /\ last.error.code = NOT_INITIALIZED

GuardedClientOps ==
  {"setEncryptionKey", "generateEncryptionKey", "importEncryptionKey",
   "exportEncryptionKey", "sendMessage", "getMessages", "exportData", "importData"}

\* C3: on a client whose initialized flag is false each of the eight guarded
\* operations fails with the not-initialized error naming LumoxClient,
\* invokes no Storage or Crypto method and changes no state.
C3_GuardBeforeCollaborators ==
  [][(~client.initialized /\ last'.op \in GuardedClientOps) =>
       /\ ~last'.ok
       /\ last'.error = NotInitializedError("LumoxClient")
       /\ last'.calls = <<>>
       /\ client' = client /\ storage' = storage /\ crypto' = crypto]_vars

\* importData was refused after a failed initialize left the client
\* uninitialized although the storage provider is open
C3_Witness ==
  /\ last.op = "importData" /\ ~client.initialized /\ ~last.ok
  /\ storage.initialized /\ storage.db.open

\* C4: a failing initialize() fails with INITIALIZATION_FAILED, carries the
\* collaborator's error as cause and leaves the initialized flag false.
C4_InitializeFailureResets ==
  (last.op = "initialize" /\ ~last.ok) =>
    /\ last.error.code = INITIALIZATION_FAILED
    /\ last.error.cause # NoError
    /\ ~client.initialized

\* the window [offset, offset + limit) holds the row of the sent message
\* whatever order the engine gives to rows of equal timestamp
Covers(db, sent, limit, offset) ==
  LET rows == Matching(db, sent.senderId, sent.receiverId)
      newer == { r \in rows : r.timestamp > sent.timestamp }
      notOlder == { r \in rows : r.timestamp >= sent.timestamp }
      off == IF offset < 0 THEN 0 ELSE offset
  IN /\ off <= Cardinality(newer)
     /\ limit < 0 \/ Cardinality(notOlder) <= off + limit

\* a getMessages between the two parties of the latest sent message has
\* returned, with a window that covers its row
ReadBackOfSent ==
  /\ last.op = "getMessages" /\ last.ok /\ lastSent.sent
  /\ \/ last.args.user1Id = lastSent.senderId /\ last.args.user2Id = lastSent.receiverId
     \/ last.args.user1Id = lastSent.receiverId /\ last.args.user2Id = lastSent.senderId
  /\ Covers(storage.db, lastSent, OrDefault(last.args.limit, DefaultLimit),
            OrDefault(last.args.offset, DefaultOffset))

\* no surrogate of the string is unpaired
WellFormedString(str) ==
  \A i \in 1..Len(str) :
    /\ str[i] = "HI" => i < Len(str) /\ str[i + 1] = "LO"
    /\ str[i] = "LO" => i > 1 /\ str[i - 1] = "HI"

\* every value of the map has a JSON form that parses back to it
JsonRepresentable(metadata) ==
  \A p \in metadata.entries : p[2] \notin {"undefined", "n:NaN"}

\* C5 as stated: after sendMessage(s, r, c, m) returned id i, getMessages(s, r)
\* or getMessages(r, s) under the same key, with a window covering the record,
\* returns a message with id i, sender s, receiver r, content c, metadata m.
C5_RoundTrip_AsStated ==
  ReadBackOfSent =>
    \E i \in 1..Len(last.value) :
      /\ last.value[i].id = lastSent.id
      /\ last.value[i].senderId = lastSent.senderId
      /\ last.value[i].receiverId = lastSent.receiverId
      /\ last.value[i].content = lastSent.content
      /\ last.value[i].metadata = lastSent.metadata

\* C5 (amended): the message read back has id i, sender s and receiver r; its
\* content is c when c has no unpaired surrogate, and its metadata is m when
\* m is absent or holds JSON-representable values only.
C5_RoundTrip ==
  ReadBackOfSent =>
    \E i \in 1..Len(last.value) :
      /\ last.value[i].id = lastSent.id
      /\ last.value[i].senderId = lastSent.senderId
      /\ last.value[i].receiverId = lastSent.receiverId
      /\ WellFormedString(lastSent.content) =>
           last.value[i].content = lastSent.content
      /\ JsonRepresentable(lastSent.metadata) =>
           last.value[i].metadata = lastSent.metadata

\* a surrogate pair sent with an empty metadata map was read back by the
\* receiver side query while another message is in the store
C5_Witness ==
  /\ ReadBackOfSent
  /\ lastSent.content = <<"HI", "LO">> /\ lastSent.metadata = Metadata({})
  /\ last.args.user1Id = "bob"
  /\ Len(last.value) = 2

\* an INSERT of the batch fails on the database: the statement cannot run,
\* the engine fails one, an id is already stored or comes twice in the batch
SomeInsertFails(db, batch, failAt) ==
  \/ ~CanQuery(db)
  \/ failAt \in 1..Len(batch)
  \/ \E i \in 1..Len(batch) : \E r \in db.messages : r.id = batch[i].id
  \/ \E i, j \in 1..Len(batch) : i < j /\ batch[i].id = batch[j].id

\* C6: saveMessages on an initialized provider is all-or-nothing.  If an
\* insert of the batch fails, the call fails with STORAGE_TRANSACTION_ERROR
\* whose context carries the batch size, and the store is what it was before
\* the call; otherwise every record of the batch is stored and the ids are
\* returned in input order.
C6_BatchAllOrNothing ==
  [][ (last'.op = "storage.saveMessages" /\ ~StorageNotInitialized(storage)) =>
        LET batch == last'.args.messages
        IN IF SomeInsertFails(storage.db, batch, last'.args.failAt)
             THEN /\ ~last'.ok
                  /\ last'.error.code = STORAGE_TRANSACTION_ERROR
                  /\ last'.error.context.messageCount = Len(batch)
                  /\ storage' = storage
           ELSE /\ last'.ok
                /\ last'.value = [i \in 1..Len(batch) |-> batch[i].id]
                /\ storage'.db.messages =
                     storage.db.messages \cup { RowOf(batch[i]) : i \in 1..Len(batch) }
                /\ storage' = [storage EXCEPT !.db.messages = storage'.db.messages]
    ]_vars

\* a batch that repeats an id failed on a working store, and the first record,
\* whose own insert went through, is not in the store
C6_Witness ==
  /\ last.op = "storage.saveMessages" /\ ~last.ok
  /\ last.error.code = STORAGE_TRANSACTION_ERROR
  /\ last.args.messages = <<OfCarol, OfCarol>> /\ last.args.failAt = 0
  /\ ~StorageNotInitialized(storage) /\ CanQuery(storage.db)
  /\ RowOf(Tampered) \in storage.db.messages
  /\ RowOf(OfCarol) \notin storage.db.messages

\* an import that asks for overwrite (directly, or through an initialized
\* client) on a provider that is open and working has failed
OverwriteImportFailed ==
  /\ last'.op \in {"storage.import", "importData"}
  /\ last'.op = "importData" => ~ClientNotInitialized(client)
  /\ OrDefault(last'.args.overwrite, FALSE)
  /\ ~StorageNotInitialized(storage) /\ CanQuery(storage.db)
  /\ ~last'.ok

\* C7 as stated: import(blob, overwrite=true) is atomic: when it fails, the
\* store still holds exactly the records it held before and still accepts
\* reads and writes.
C7_ImportAtomic ==
  [][ OverwriteImportFailed =>
        /\ storage'.db = storage.db
        /\ ~StorageNotInitialized(storage') /\ CanQuery(storage'.db)
    ]_vars

\* C8: after a successful importData(blob, true) the store holds exactly the
\* records of blob; an exportData() that follows yields a blob with exactly
\* those records; and importData(exportData(), true) leaves the stored
\* records unchanged.
C8_ImportReplacesStore ==
  [][ /\ (last'.op = "importData" /\ last'.ok) =>
           /\ last'.args.data.kind = "db"
           /\ storage'.db.open
           /\ storage'.db.messages = last'.args.data.image.messages
      /\ (last.op = "importData" /\ last.ok /\ last'.op = "exportData") =>
           /\ last'.ok
           /\ last'.value.kind = "db"
           /\ last'.value.image.messages = last.args.data.image.messages
           /\ storage' = storage
      /\ (/\ last.op = "exportData" /\ last.ok
          /\ last'.op = "importData"
          /\ last'.args.data = last.value
          /\ last'.args.overwrite = Arg(TRUE)) =>
           /\ storage'.db.open
           /\ storage'.db.messages = storage.db.messages
           /\ CanReadVersion(storage.db) => last'.ok
    ]_vars

\* a blob that exportData() produced from a store holding a message sent by
\* alice has been imported, and the store holds the records of the blob
C8_Witness ==
  /\ last.op = "importData" /\ last.ok
  /\ \E r \in last.args.data.image.messages : r.sender_id = "alice"
  /\ last.args.data.image.messages = storage.db.messages

\* C9: import with overwrite false or omitted, on the provider in any state
\* and through importData of an initialized client, fails with
\* STORAGE_IMPORT_ERROR for every blob and leaves the provider (its records,
\* its initialized flag and its handle) unchanged.
C9_MergeImportFails ==
  [][ (/\ last'.op \in {"storage.import", "importData"}
       /\ last'.op = "importData" => ~ClientNotInitialized(client)
       /\ ~OrDefault(last'.args.overwrite, FALSE)) =>
        /\ ~last'.ok
        /\ last'.error.code = STORAGE_IMPORT_ERROR
        /\ last'.op = "importData" =>
             /\ last'.error.cause.code = STORAGE_IMPORT_ERROR
             /\ last'.calls = <<"storage.import">>
        /\ storage' = storage
    ]_vars

\* importData(blob) without the overwrite argument failed on a store that
\* holds a record, for a valid blob that holds another one
C9_Witness ==
  /\ last.op = "importData" /\ last.args.overwrite = Omitted
  /\ last.args.data = BackupBlob
  /\ ~last.ok /\ last.error.code = STORAGE_IMPORT_ERROR
  /\ ~StorageNotInitialized(storage)
  /\ storage.db.messages = {RowOf(Tampered)}

\* the operations of the provider that start with ensureInitialized(), and import
GuardedStorageOps ==
  {"storage.saveMessage", "storage.getMessage", "storage.getMessagesBetweenUsers",
   "storage.deleteMessage", "storage.saveMessages", "storage.export",
   "storage.import"}

\* C10 as stated: every provider operation other than initialize and close,
\* issued before initialize() has completed or after close(), fails with
\* NOT_INITIALIZED naming SqliteStorageProvider and leaves the provider closed.
C10_ClosedProviderRejects ==
  [][ (~storage.initialized /\ last'.op \in GuardedStorageOps) =>
        /\ ~last'.ok
        /\ last'.error = NotInitializedError(StorageComponent)
        /\ ~storage'.initialized
    ]_vars

\* C11 as stated: from any client state close() never throws, the first time
\* or the second time in a row, and on a client whose initialized flag is
\* false it returns without calling storage.close().
C11_CloseNeverThrows ==
  [][ last'.op = "close" =>
        /\ last'.ok
        /\ ~client.initialized => last'.calls = <<>>
    ]_vars

\* C11 (amended): close() on a client whose initialized flag is false, and so
\* a close() that follows a close() that returned, returns without calling
\* storage.close() and changes nothing; close() throws only when
\* storage.close() throws, with UNKNOWN_ERROR around the storage error, and
\* the client then stays initialized.
C11_CloseIdempotent ==
  [][ last'.op = "close" =>
        /\ ~client.initialized =>
             /\ last'.ok /\ last'.calls = <<>>
             /\ UNCHANGED <<client, storage, crypto>>
        /\ (last.op = "close" /\ last.ok) => (last'.ok /\ last'.calls = <<>>)
        /\ last'.ok => ~client'.initialized
        /\ ~last'.ok =>
             /\ client.initialized /\ client'.initialized
             /\ last'.calls = <<"storage.close">>
             /\ last'.error.code = UNKNOWN_ERROR
             /\ last'.error.cause.code = STORAGE_CONNECTION_ERROR
    ]_vars

\* close() returned on a client that is not initialized while the provider,
\* initialized on its own, is still open: storage.close() was not called
C11_Witness ==
  /\ last.op = "close" /\ last.ok /\ last.calls = <<>>
  /\ ~client.initialized
  /\ storage.initialized /\ storage.db.open

ClientOps ==
  GuardedClientOps \cup {"initialize", "close"}

\* the codes of the enumeration that the client and the providers raise
RaisedCodes ==
  { UNKNOWN_ERROR, INITIALIZATION_FAILED, NOT_INITIALIZED,
    STORAGE_INITIALIZATION_FAILED, STORAGE_CONNECTION_ERROR, STORAGE_READ_ERROR,
    STORAGE_WRITE_ERROR, STORAGE_DELETE_ERROR, STORAGE_EXPORT_ERROR,
    STORAGE_IMPORT_ERROR, STORAGE_TRANSACTION_ERROR, CRYPTO_INITIALIZATION_FAILED,
    CRYPTO_KEY_GENERATION_FAILED, CRYPTO_ENCRYPTION_FAILED, CRYPTO_DECRYPTION_FAILED,
    CRYPTO_KEY_EXPORT_FAILED, CRYPTO_KEY_IMPORT_FAILED, CRYPTO_NOT_AVAILABLE,
    CRYPTO_KEY_NOT_SET }

\* C13 as stated: every failure a LumoxClient operation surfaces is a
\* LumoxError with a code of the enumeration, whatever error the Storage or
\* Crypto collaborator raised.
C13_AllFailuresTagged ==
  (last.op \in ClientOps /\ ~last.ok) =>
    (IsLumoxError(last.error) /\ last.error.code \in RaisedCodes)

\* the latest call failed on an error of a collaborator that is not
\* taxonomy-tagged: that error is what was surfaced, or the cause of it
FailedOnUntagged ==
  /\ ~last.ok
  /\ \/ last.error = ForeignError("collaborator")
     \/ IsLumoxError(last.error) /\ last.error.cause = ForeignError("collaborator")

\* C14 as stated: a sendMessage that fails on an error that is not
\* taxonomy-tagged surfaces CRYPTO_ENCRYPTION_FAILED when crypto.encrypt
\* raised it and STORAGE_WRITE_ERROR otherwise, with senderId and receiverId
\* as context and the original error as cause.
C14_SendFailureCodes ==
  (last.op = "sendMessage" /\ FailedOnUntagged) =>
    /\ IsLumoxError(last.error)
    /\ last.error.cause = ForeignError("collaborator")
    /\ last.error.context = [senderId |-> last.args.senderId,
                             receiverId |-> last.args.receiverId]
    /\ last.error.code = IF last.calls = <<"crypto.encrypt">>
                           THEN CRYPTO_ENCRYPTION_FAILED
                         ELSE STORAGE_WRITE_ERROR

\* the taxonomy-tagged errors crypto.encrypt and storage.saveMessage can raise
\* for a sendMessage with these arguments on the current providers
SendTaggedErrors(args) ==
  LET em(t) == [id |-> MessageIdOf(args.senderId, args.receiverId, t, "r1"),
                senderId |-> args.senderId, receiverId |-> args.receiverId,
                encryptedContent |-> Token(1, client.encryptionKey, TextEncode(args.content)),
                timestamp |-> t, metadata |-> args.metadata]
      encrypts == { Crypto_encrypt(crypto, args.content, client.encryptionKey, 1, f) :
                      f \in BOOLEAN }
      saves == { Sqlite_saveMessage(storage, em(t), f) : t \in Timestamps, f \in BOOLEAN }
  IN { r.error : r \in { x \in encrypts \cup saves : ~x.ok } }

\* the taxonomy-tagged errors storage.getMessagesBetweenUsers can raise for a
\* getMessages with these arguments on the current provider
FetchTaggedErrors(args) ==
  LET r == Sqlite_getMessagesBetweenUsers(
             storage, args.user1Id, args.user2Id, OrDefault(args.limit, DefaultLimit),
             OrDefault(args.offset, DefaultOffset), <<>>)
  IN IF r.ok THEN {} ELSE {r.error}

\* C15: when a collaborator call inside sendMessage, or the fetch step of
\* getMessages, fails with an error that is a LumoxError, the client surfaces
\* that very error: same code, message, cause and context, no wrapper.
C15_TaggedPassThrough ==
  [][ /\ (/\ last'.op = "sendMessage" /\ ~last'.ok /\ last'.calls # <<>>
          /\ ~FailedOnUntagged') =>
           last'.error \in SendTaggedErrors(last'.args)
      /\ (/\ last'.op = "getMessages" /\ ~last'.ok /\ last'.calls # <<>>
          /\ ~FailedOnUntagged') =>
           last'.error \in FetchTaggedErrors(last'.args)
    ]_vars

\* sendMessage surfaced the StorageError of saveMessage for an id that is
\* already stored: code STORAGE_WRITE_ERROR with the provider's own context
C15_Witness ==
  /\ last.op = "sendMessage" /\ ~last.ok
  /\ last.calls = <<"crypto.encrypt", "storage.saveMessage">>
  /\ last.error.kind = "StorageError"
  /\ last.error.code = STORAGE_WRITE_ERROR
  /\ last.error.context = [messageId |-> MessageIdOf("alice", "bob", 1, "r1")]
  /\ RowsWithId(storage, MessageIdOf("alice", "bob", 1, "r1")) # {}

\* getMessages passed its preconditions and failed
GetMessagesFailed ==
  last.op = "getMessages" /\ ~last.ok /\ last.calls # <<>>

\* C16 as stated: a getMessages that fails after its preconditions passed
\* failed in the fetch step, and fails with code STORAGE_READ_ERROR carrying
\* both user ids, limit and offset as context.
C16_FetchFailureIsReadError ==
  GetMessagesFailed =>
    /\ last.calls = <<"storage.getMessagesBetweenUsers">>
    /\ last.error.code = STORAGE_READ_ERROR
    /\ DOMAIN last.error.context = {"user1Id", "user2Id", "limit", "offset"}
    /\ last.error.context.user1Id = last.args.user1Id
    /\ last.error.context.user2Id = last.args.user2Id

\* C16 (amended): a getMessages that fails after its preconditions passed
\* failed in the fetch step.  A fetch error that is not taxonomy-tagged is
\* surfaced as STORAGE_READ_ERROR with both user ids, limit and offset as
\* passed for context and the fetch error as cause; a fetch error that is a
\* LumoxError is surfaced as it is: the provider's STORAGE_READ_ERROR with both
\* user ids and the effective limit and offset, or its NOT_INITIALIZED.
C16_FetchFailureSurfaced ==
  GetMessagesFailed =>
    /\ last.calls = <<"storage.getMessagesBetweenUsers">>
    /\ IF FailedOnUntagged
         THEN /\ last.error.code = STORAGE_READ_ERROR
              /\ last.error.cause = ForeignError("collaborator")
              /\ last.error.context =
                   [user1Id |-> last.args.user1Id, user2Id |-> last.args.user2Id,
                    limit |-> last.args.limit, offset |-> last.args.offset]
       ELSE /\ last.error \in FetchTaggedErrors(last.args)
            /\ \/ last.error = NotInitializedError(StorageComponent)
               \/ /\ last.error.code = STORAGE_READ_ERROR
                  /\ last.error.context =
                       [user1Id |-> last.args.user1Id, user2Id |-> last.args.user2Id,
                        limit |-> OrDefault(last.args.limit, DefaultLimit),
                        offset |-> OrDefault(last.args.offset, DefaultOffset)]

\* a fetch with limit 1 and offset 1 was rejected by the collaborator with an
\* error of its own, on a store that holds messages
C16_Witness ==
  /\ GetMessagesFailed /\ FailedOnUntagged
  /\ last.args.limit = Arg(1) /\ last.args.offset = Arg(1)
  /\ ~StorageNotInitialized(storage)
  /\ Matching(storage.db, "alice", "bob") # {}

\* the rows of the store exchanged between a and b, in either direction
RowsBetween(db, a, b) ==
  { r \in db.messages : {r.sender_id, r.receiver_id} = {a, b} }

\* a getMessagesBetweenUsers on the provider has returned
PageRead == last.op = "storage.getMessagesBetweenUsers" /\ last.ok

C18_PagesPartition ==
  [][ (last'.op = "storage.getMessagesBetweenUsers" /\ last'.ok) =>
        LET lim == OrDefault(last'.args.limit, DefaultLimit)
            off == OrDefault(last'.args.offset, DefaultOffset)
            rows == RowsBetween(storage.db, last'.args.user1Id, last'.args.user2Id)
            ids(res) == { res[i].id : i \in 1..Len(res) }
        IN /\ \E order \in Orderings(rows) :
                last'.value = MessagesOfRows(Window(order, lim, off))
           /\ (/\ PageRead
               /\ last.args.user1Id = last'.args.user1Id
               /\ last.args.user2Id = last'.args.user2Id
               /\ OrDefault(last.args.limit, DefaultLimit) = lim
               /\ OrDefault(last.args.offset, DefaultOffset) + lim = off) =>
                /\ ids(last.value) \cap ids(last'.value) = {}
                /\ Len(last.value) + Len(last'.value) =
                     Min(Cardinality(rows), off + lim) - Min(Cardinality(rows), off - lim)
    ]_vars

\* C19 as stated: deleteMessage(id) returns true exactly when a record with
\* that id was present, and false when there is none; afterwards no record
\* has that id and every other record is unchanged.
C19_DeleteReportsRemoval ==
  [][ (/\ last'.op = "storage.deleteMessage"
       /\ ~StorageNotInitialized(storage) /\ CanQuery(storage.db)) =>
        /\ last'.ok
        /\ last'.value = JsBoolean(\E r \in storage.db.messages : r.id = last'.args.id)
        /\ storage'.db.messages = { r \in storage.db.messages : r.id # last'.args.id }
    ]_vars

\* C20 as stated: on an initialized store getMessage(id) returns the stored
\* record for an id that is in the store and the absent value, without an
\* error, for an id that is not; it never modifies the store.
C20_PointLookup ==
  [][ (/\ last'.op = "storage.getMessage"
       /\ ~StorageNotInitialized(storage) /\ CanQuery(storage.db)) =>
        /\ last'.ok
        /\ storage' = storage
        /\ \A r \in storage.db.messages :
             r.id = last'.args.id => last'.value = MessageOfRow(r)
        /\ (\A r \in storage.db.messages : r.id # last'.args.id) => last'.value = Null
    ]_vars

\* no two rows of the messages table share an id
UniqueIds(st) ==
  st.db.open => \A r1, r2 \in st.db.messages : r1.id = r2.id => r1 = r2

\* C21: in every reachable store state no two records share an id;
\* saveMessage of a record whose id is already present fails with
\* STORAGE_WRITE_ERROR carrying that id as context and leaves the store
\* unchanged; a successful saveMessage returns the id of the record and adds
\* exactly that one record.
C21_UniqueIds ==
  /\ []UniqueIds(storage)
  /\ [][ last'.op = "storage.saveMessage" =>
          LET m == last'.args.message
          IN /\ (/\ ~StorageNotInitialized(storage)
                  /\ \E r \in storage.db.messages : r.id = m.id) =>
                   /\ ~last'.ok
                   /\ last'.error.code = STORAGE_WRITE_ERROR
                   /\ last'.error.context = [messageId |-> m.id]
                   /\ storage' = storage
             /\ last'.ok =>
                   /\ last'.value = m.id
                   /\ RowOf(m) \notin storage.db.messages
                   /\ storage'.db.messages = storage.db.messages \cup {RowOf(m)}
                   /\ storage' = [storage EXCEPT !.db.messages = storage'.db.messages]
      ]_vars

\* a saveMessage was refused with the id as context while a record with that
\* id, and a record of another id, are in the store
C21_Witness ==
  /\ last.op = "storage.saveMessage" /\ ~last.ok
  /\ last.error.code = STORAGE_WRITE_ERROR
  /\ last.error.context = [messageId |-> last.args.message.id]
  /\ ~StorageNotInitialized(storage)
  /\ \E r \in storage.db.messages : r.id = last.args.message.id
  /\ Cardinality(storage.db.messages) >= 2

\* the rows of the store, none when no database is open
RowsOf(st) == IF st.db.open THEN st.db.messages ELSE {}

\* the rows sendMessage wrote (its ids end in the random part it drew)
SentRows(st) == { r \in RowsOf(st) : r.id.random = "r1" }

\* the call recorded in l is deleteMessage(id)
DeletesId(l, id) == l.op = "storage.deleteMessage" /\ l.args.id = id

\* the call recorded in l is an import with overwrite = true, or a close
ReplacesOrCloses(l) ==
  \/ l.op \in {"storage.import", "importData"} /\ l.args.overwrite = Arg(TRUE)
  \/ l.op \in {"storage.close", "close"}

\* C22 as stated: a message stored by sendMessage stays in the store with
\* the same id, sender, receiver, timestamp and encrypted content, whatever
\* client or storage operation is invoked, until deleteMessage is called with
\* its id.
C22_DestroyedOnlyByDelete ==
  [][ \A r \in SentRows(storage) :
        ~DeletesId(last', r.id) => r \in RowsOf(storage') ]_vars

\* the call recorded in l is an initialize that opens a new database
OpensNew(l, st) == l.op \in {"storage.initialize", "initialize"} /\ ~st.initialized

\* C22: a stored message is never modified, and it leaves the store only by
\* deleteMessage with its id, by an import with overwrite = true, by a close,
\* or by an initialize of a provider that is not initialized (which opens a
\* new, empty database): every other operation keeps the record with the
\* same id, sender, receiver, timestamp, encrypted content and metadata.
C22_ImmutableUntilRemoved ==
  [][ \A r \in RowsOf(storage) :
        \/ DeletesId(last', r.id)
        \/ ReplacesOrCloses(last')
        \/ OpensNew(last', storage)
        \/ r \in RowsOf(storage') ]_vars

\* a message sent by the client is in the store after a deleteMessage of
\* another id removed the record of carol
C22_Witness ==
  /\ last.op = "storage.deleteMessage" /\ last.ok
  /\ last.args.id = OfCarol.id
  /\ SentRows(storage) # {}
  /\ RowOf(Tampered) \in RowsOf(storage)

KeyOps == {"setEncryptionKey", "generateEncryptionKey", "importEncryptionKey"}
StorageMethods ==
  {"storage.initialize", "storage.close", "storage.saveMessage",
   "storage.getMessage", "storage.getMessagesBetweenUsers",
   "storage.deleteMessage", "storage.saveMessages", "storage.export",
   "storage.import"}

\* the result of a getMessages that holds the record of row r
ResultOf(res, r) == { i \in 1..Len(res) : res[i].id = r.id }

\* C23: setEncryptionKey, generateEncryptionKey and importEncryptionKey
\* invoke no Storage method and leave every stored record, its
\* encrypted-content token included, unchanged; so a getMessages over the
\* default window returns one result for each record of the two users, a
\* decryption-error placeholder for a record stored under another key than
\* the active one and the content sent for a record stored under the active
\* key.
C23_KeyOpsLeaveStore ==
  /\ [][ last'.op \in KeyOps =>
            /\ storage' = storage
            /\ \A i \in 1..Len(last'.calls) : last'.calls[i] \notin StorageMethods
       ]_vars
  /\ [](( /\ last.op = "getMessages" /\ last.ok
           /\ last.args.limit = Omitted /\ last.args.offset = Omitted) =>
          \A r \in Matching(storage.db, last.args.user1Id, last.args.user2Id) :
            /\ Cardinality(ResultOf(last.value, r)) = 1
            /\ \A i \in ResultOf(last.value, r) :
                 IF r.encrypted_content.wellFormed
                      /\ r.encrypted_content.key = client.encryptionKey
                   THEN last.value[i].content = TextDecode(r.encrypted_content.bytes)
                 ELSE /\ last.value[i].content = DecryptionErrorContent
                      /\ <<"decryptionError", "b:true">> \in last.value[i].metadata.entries)

\* the key was replaced between two sends: getMessages returned the record
\* stored under the previous key as a placeholder and the record stored
\* under the active key with its content
C23_Witness ==
  /\ last.op = "getMessages" /\ last.ok /\ Len(last.value) = 2
  /\ \E i, j \in 1..2 :
       /\ last.value[i].content = DecryptionErrorContent
       /\ last.value[j].content = Plain
  /\ \E r1, r2 \in SentRows(storage) :
       /\ r1.encrypted_content.key # client.encryptionKey
       /\ r2.encrypted_content.key = client.encryptionKey

\* the key a successful key operation recorded in l installs
InstalledKey(l) ==
  IF l.op = "setEncryptionKey" THEN l.args.key
  ELSE IF l.op = "generateEncryptionKey" THEN l.value
  ELSE l.args.keyData.key

\* C24: the active key is absent at construction; a successful
\* setEncryptionKey, generateEncryptionKey or importEncryptionKey makes it
\* the key that call installs, which is never the absent value; every other
\* call (a failed generate or import, close, initialize, every data
\* operation) leaves it unchanged.
C24_ActiveKey ==
  /\ client.encryptionKey = NoKey
  /\ [][ IF last'.op \in KeyOps /\ last'.ok
            THEN /\ client'.encryptionKey = InstalledKey(last')
                 /\ client'.encryptionKey # NoKey
          ELSE client'.encryptionKey = client.encryptionKey
       ]_vars

\* a close() has left the client closed and the database discarded, and
\* the key k2 installed before is still the active key
C24_Witness ==
  /\ last.op = "close" /\ last.ok /\ ~client.initialized
  /\ client.encryptionKey = "k2"
  /\ SentRows(storage) = {} /\ ~storage.db.open

\* C25: initialize() of a provider whose initialize() has completed (and
\* that was not closed since) is a no-op: it returns normally and leaves the
\* database, its schema_version rows and every stored record as they were;
\* so no database ever holds a second schema_version row.
C25_ReinitializeIsNoOp ==
  /\ [](storage.db.open => Len(storage.db.schema_version) <= 1)
  /\ [][ (storage.initialized /\ last'.op \in {"storage.initialize", "initialize"}) =>
            /\ storage' = storage
            /\ last'.op = "storage.initialize" => last'.ok
       ]_vars

\* initialize() has returned on a provider that holds records and one
\* schema_version row
C25_Witness ==
  /\ last.op = "storage.initialize" /\ last.ok
  /\ storage.initialized /\ storage.db.open
  /\ storage.db.schema_version = <<SCHEMA_VERSION>>
  /\ Cardinality(storage.db.messages) >= 2

\* the records handed to saveMessage whose rows are in the store
SavedRecords == { m \in Records : storage.db.open /\ RowOf(m) \in storage.db.messages }

\* getMessagesBetweenUsers reads every record back with the metadata it was
\* saved with, absent when it was saved without
ListedWithMetadata ==
  PageRead =>
    \A i \in 1..Len(last.value) : \A m \in SavedRecords :
      m.id = last.value[i].id => last.value[i].metadata = m.metadata

\* C26 as stated: a record saved with metadata m is read back by getMessage
\* and by getMessagesBetweenUsers with metadata equal to m, and a record
\* saved without metadata is read back with metadata absent.
C26_MetadataRoundTrip ==
  /\ ListedWithMetadata
  /\ (last.op = "storage.getMessage" /\ last.ok) =>
        \A m \in SavedRecords :
          m.id = last.args.id =>
            /\ last.value # Null
            /\ last.value.metadata = m.metadata

\* a decrypt of the token the preceding encrypt returned, under the key of
\* that encrypt
DecryptsLatest(l1, l2) ==
  /\ l1.op = "crypto.encrypt" /\ l1.ok
  /\ l2.op = "crypto.decrypt"
  /\ l2.args.encryptedData = l1.value.token
  /\ l2.args.key = l1.args.key

Encrypted(l) == l.op = "crypto.encrypt" /\ l.ok

ValidKeyString(keyData) ==
  ~keyData.blank /\ keyData.base64 /\ keyData.length = 32

\* C29: on an initialized provider importKey returns a key exactly for the
\* strings that are not blank, decode as base64 and decode to 32 bytes, and
\* fails with CRYPTO_KEY_IMPORT_FAILED for every other string (blank, not
\* base64, 31 or 33 bytes); importEncryptionKey of an initialized client
\* fails for those strings with the same code and leaves the active key
\* unchanged.
C29_ImportKeyValidation ==
  /\ []((last.op = "crypto.importKey" /\ crypto.initialized) =>
          IF ValidKeyString(last.args.keyData)
            THEN last.ok /\ last.value = [key |-> last.args.keyData.key]
          ELSE ~last.ok /\ last.error.code = CRYPTO_KEY_IMPORT_FAILED)
  /\ [][ (/\ last'.op = "importEncryptionKey" /\ client.initialized
           /\ ~ValidKeyString(last'.args.keyData)) =>
            /\ ~last'.ok
            /\ last'.error.code = CRYPTO_KEY_IMPORT_FAILED
            /\ client'.encryptionKey = client.encryptionKey
       ]_vars

\* importEncryptionKey of a string that decodes to 33 bytes has failed on a
\* client whose active key is k2, and the key is still k2
C29_Witness ==
  /\ last.op = "importEncryptionKey" /\ ~last.ok
  /\ last.error.code = CRYPTO_KEY_IMPORT_FAILED
  /\ last.args.keyData.length = 33
  /\ client.initialized /\ client.encryptionKey = "k2"

\* the string is no token, or it does not authenticate under the key
Undecryptable(encryptedData, key) ==
  ~encryptedData.wellFormed \/ encryptedData.key # key

\* C30: on an initialized provider decrypt fails with
\* CRYPTO_DECRYPTION_FAILED, the error that made it fail attached as cause,
\* for every string that is blank, is not base64, decodes to 12 bytes or
\* fewer, or does not authenticate under the key; for every other token it
\* returns the plaintext, so each call ends with a plaintext or that error.
C30_DecryptFailures ==
  (last.op = "crypto.decrypt" /\ crypto.initialized) =>
    IF Undecryptable(last.args.encryptedData, last.args.key)
      THEN /\ ~last.ok
           /\ last.error.kind = "CryptoError"
           /\ last.error.code = CRYPTO_DECRYPTION_FAILED
           /\ last.error.cause = DecryptFailure(last.args.encryptedData)
           /\ last.error.cause # NoError
    ELSE /\ last.ok
         /\ last.value = [string |-> TextDecode(last.args.encryptedData.bytes)]

\* decrypt has refused, with the engine's error as cause, a token that
\* encrypt made under the other key
C30_Witness ==
  /\ last.op = "crypto.decrypt" /\ ~last.ok /\ crypto.initialized
  /\ last.args.encryptedData.wellFormed
  /\ last.args.encryptedData.key \in Keys \ {last.args.key}
  /\ last.error.code = CRYPTO_DECRYPTION_FAILED
  /\ last.error.cause = ForeignError("engine")

\* whether r is an error of the cause chain that starts at e
RECURSIVE InChain(_, _)
InChain(e, r) ==
  \/ r = e
  \/ IsLumoxError(e) /\ e.cause # NoError /\ InChain(e.cause, r)

\* C31: unwrapError(e) returns the error at the end of the cause chain of
\* e: an error of the chain that is no LumoxError, or a LumoxError without a
\* cause when the chain holds LumoxErrors only; it returns e itself when e is
\* no LumoxError, and unwrapping the result again returns the result.
C31_UnwrapError ==
  last.op = "unwrapError" =>
    LET e == last.args.error
        r == last.value.error
    IN /\ InChain(e, r)
       /\ ~IsLumoxError(r) \/ r.cause = NoError
       /\ ~IsLumoxError(e) => r = e
       /\ unwrapError(r) = r

\* unwrapError has returned the Error at the end of a chain of MaxChain
\* errors
C31_Witness ==
  /\ last.op = "unwrapError"
  /\ ChainLength(last.args.error) = MaxChain
  /\ last.value.error = ForeignError("engine")

\* C32: a call of debug, info, warn or error on a ConsoleLogger writes to
\* the console exactly when the level in force is at most the level of the
\* method, so level NONE writes nothing; the level in force is that of the
\* constructor (INFO by default) until setLevel replaces it, and a call that
\* logs does not change it; a NullLogger never writes.
C32_LogLevelThreshold ==
  /\ []((last.op = "logger.log") =>
          (last.value.writes > 0 <=> logger.level <= LevelOf(last.args.method)))
  /\ [](last.op = "nullLogger.log" => last.value.writes = 0)
  /\ [][ /\ (last'.op = "logger.setLevel") => (logger'.level = last'.args.level)
         /\ (last'.op = "new ConsoleLogger") =>
               (logger'.level = OrDefault(last'.args.level, INFO))
         /\ (last'.op \in {"logger.log", "nullLogger.log"}) => (logger' = logger)
         /\ (last'.op \in {"logger.setPrefix", "logger.setTimestamps"}) =>
               (logger'.level = logger.level)
       ]_vars

\* a warn call has written once on a logger whose level is WARN
C32_Witness ==
  /\ last.op = "logger.log" /\ last.args.method = "warn"
  /\ logger.level = WARN /\ last.value.writes = 1

\* C33: initialize() of the client calls storage.initialize() first and
\* crypto.initialize() only when that call succeeded: a failure of the
\* storage leaves crypto.initialize() uncalled and the crypto provider as it
\* was; the initialized flag turns true only in a call in which both
\* succeeded.
C33_StorageThenCrypto ==
  [][ (last'.op = "initialize") =>
        /\ last'.calls \in { <<"storage.initialize">>,
                              <<"storage.initialize", "crypto.initialize">> }
        /\ (Len(last'.calls) = 1) <=>
              (~last'.ok /\ last'.error.cause.kind = "StorageError")
        /\ (Len(last'.calls) = 1) => (crypto' = crypto)
        /\ (last'.ok \/ (client'.initialized /\ ~client.initialized)) =>
              /\ last'.ok /\ Len(last'.calls) = 2
              /\ client'.initialized /\ storage'.initialized /\ crypto'.initialized
    ]_vars

\* initialize() has failed in storage.initialize(): crypto.initialize() was
\* not called and neither the crypto provider nor the client is initialized
C33_Witness ==
  /\ last.op = "initialize" /\ ~last.ok
  /\ last.calls = <<"storage.initialize">>
  /\ last.error.cause.code = STORAGE_INITIALIZATION_FAILED
  /\ ~crypto.initialized /\ ~client.initialized

\* C34: the list getMessages returns has the records in the order of the
\* fetch, newest first, whatever the order in which the decryptions issued
\* together settled and whichever of them failed.
C34_FetchOrderKept ==
  [][ (gather.active /\ ~gather'.active) =>
        /\ last'.op = "getMessages" /\ last'.ok
        /\ Len(last'.value) = Len(gather.fetched)
        /\ \A i \in 1..Len(gather.fetched) :
             /\ last'.value[i].id = gather.fetched[i].id
             /\ last'.value[i] =
                  DecryptOne(gather.crypto, gather.fetched[i], gather.key, "none")
        /\ \A i, j \in 1..Len(last'.value) :
             i < j => last'.value[i].timestamp >= last'.value[j].timestamp
    ]_vars

\* every decryption of a call over three records has settled, the newest
\* record last, and one of them failed while another succeeded
C34_Witness ==
  /\ gather.active
  /\ Len(gather.fetched) = 3 /\ Len(gather.settled) = 3
  /\ gather.settled[3] = 1
  /\ \E i, j \in 1..3 :
       /\ gather.done[i].content = DecryptionErrorContent
       /\ gather.done[j].content = Plain

\* C35: sendMessage calls storage.saveMessage only after crypto.encrypt has
\* succeeded and hands it the token encrypt returned, not the content.  A
\* sendMessage that returns an id has added exactly one record, the one with
\* that id, holding that token; a sendMessage that fails, in its guards, in
\* encrypt or in the write, leaves the store as it was.
C35_SendStoresToken ==
  [][ (last'.op = "sendMessage") =>
        /\ last'.calls \in { <<>>, <<"crypto.encrypt">>,
                              <<"crypto.encrypt", "storage.saveMessage">> }
        /\ (Len(last'.calls) = 1) <=>
              /\ ~last'.ok
              /\ last'.error.kind = "CryptoError"
              /\ last'.error.code # CRYPTO_KEY_NOT_SET
        /\ IF last'.ok
             THEN /\ Len(last'.calls) = 2
                  /\ \E row \in RowsOf(storage') \ RowsOf(storage) :
                       /\ RowsOf(storage') = RowsOf(storage) \cup {row}
                       /\ row.id = last'.value
                       /\ \A r \in RowsOf(storage) : r.id # row.id
                       /\ \E iv \in 1..MaxNonce :
                            row.encrypted_content =
                              Token(iv, client.encryptionKey,
                                    TextEncode(last'.args.content))
           ELSE storage' = storage
    ]_vars

\* a sendMessage has failed in the write, after encrypt succeeded, over a
\* store that holds a record
C35_Witness ==
  /\ last.op = "sendMessage" /\ ~last.ok
  /\ last.calls = <<"crypto.encrypt", "storage.saveMessage">>
  /\ RowsOf(storage) # {}

\* C36 as stated: between two operations of the provider the initialized
\* flag is true exactly when a database is open, after any sequence of
\* initialize, close, import and data operations, failed ones included.
C36_FlagIffHandle ==
  storage.initialized <=> storage.db.open

\* C37 as stated: from every state the client reaches, failed importData,
\* initialize and close included, a close() that returns followed by an
\* initialize() that returns (the engine no longer failing) leaves the
\* provider with an open database, so that sendMessage and getMessages do
\* not fail with a not-initialized error.
C37_RecoveryByReinitialize ==
  [][ (/\ last.op = "close" /\ last.ok
       /\ last'.op = "initialize" /\ last'.ok) =>
        /\ storage'.db.open
        /\ ~StorageNotInitialized(storage')
        /\ ~ClientNotInitialized(client')
    ]_vars

\* C38 as stated: an initialize() of the client that fails leaves no
\* collaborator half initialized: when crypto.initialize() failed after
\* storage.initialize() succeeded, the close() of the client that follows
\* releases the database the provider opened.
C38_FailedInitializeReleased ==
  [][ (/\ last.op = "initialize" /\ ~last.ok
       /\ last.calls = <<"storage.initialize", "crypto.initialize">>
       /\ last'.op = "close" /\ last'.ok) =>
        /\ ~storage'.db.open
        /\ ~storage'.initialized
    ]_vars

\* C39 as stated: however the initialize() calls of one provider without
\* sqlInstance interleave, the database is created at most once: an
\* initialize() that completes after another one has completed keeps the
\* database of that one, and no record saved since is lost.
C39_DatabaseCreatedOnce ==
  [][ (loading' < loading /\ storage.initialized) =>
        /\ storage'.db = storage.db
        /\ RowsOf(storage) \subseteq RowsOf(storage')
    ]_vars

\* C40 as stated: a message getMessages returns has decryptionError = true
\* in its metadata, or the content '[Decryption Error]', exactly when the
\* decryption of its record failed in that call, whatever content and
\* metadata were passed to sendMessage.
C40_PlaceholderIffFailure ==
  (last.op = "getMessages" /\ last.ok) =>
    \A i \in 1..Len(last.value) :
      \A row \in RowsWithId(storage, last.value[i].id) :
        (\/ <<"decryptionError", "b:true">> \in last.value[i].metadata.entries
         \/ last.value[i].content = DecryptionErrorContent)
        <=> ~Crypto_decrypt(crypto, row.encrypted_content, client.encryptionKey).ok
====
